---- MODULE Spec2Model ----
(***************************************************************************)
(* A model of one IOTDB Thing (model.js) and its Meta (meta.js): the four  *)
(* state bands, the update/set pipeline, the nextTick queue and the push   *)
(* protocol against a bound Bridge.                                        *)
(*                                                                         *)
(* Encodings.  JavaScript values are encoded as integers: Null is null,    *)
(* Undefined is undefined, NotANumber is a string that does not parse as   *)
(* a number; every other integer is itself.  Timestamps are ISO-8601       *)
(* strings of one format in the source, so their lexicographic order is    *)
(* the order of the instants; they are modelled by the integers 1, 2, ...  *)
(* and NoTS is an absent (falsy) timestamp.                                *)
(*                                                                         *)
(* The modelled Thing declares two attributes, "level" (iot:type.integer,  *)
(* minimum 0, maximum 3) and "ev" (iot:type.null), neither with            *)
(* iot:clear-value, and its binding carries no enumeration mapping.        *)
(*                                                                         *)
(* ThingArrays (thing_array.js) are modelled next to it: two constructed   *)
(* arrays, the filters and the merge made of them, the synchronous cascade *)
(* of EventEmitter listeners one call runs, and the persisted commands.    *)
(*                                                                         *)
(* Two pure functions are modelled over inputs drawn at the start:         *)
(* Model.find over any list of attributes, find_key and mode, and          *)
(* Attribute._convert / Attribute.validate over any iot:type list, any     *)
(* bounds and any raw scalar value.                                        *)
(*                                                                         *)
(* The BridgeWrapper (bridge_wrapper.js) is modelled by what it emits and  *)
(* calls for the bridges its discovery reports, for any binding.           *)
(***************************************************************************)
EXTENDS Integers, Sequences, FiniteSets, Bags, TLC

\* ---------------------------------------------------------------- bounds
\* the clock runs over 1..MaxTime
MaxTime == 2
\* at most MaxTicks callbacks wait in the nextTick queue
MaxTicks == 4
\* at most MaxPushes pushes are scheduled or in flight at once
MaxPushes == 2
\* at most MaxCallbacks callbacks are registered per attribute
MaxCallbacks == 1
\* timestamps stay within MaxTime + MaxAdvance
MaxAdvance == 1
\* at most MaxCommands commands are recorded per array
MaxCommands == 2
\* a Thing searched with find declares at most MaxAttributes attributes
MaxAttributes == 3
\* the numbers validated and the declared bounds lie within -MaxNumber..MaxNumber
MaxNumber == 2
\* the bridge instances a discovery reports at most
MaxDiscovered == 3

\* ------------------------------------------------------------- encodings
Null == -1
Undefined == -2
NotANumber == -3
NoTS == 0

Attrs == {"level", "ev"}
\* the order of Model.__attributes
AttrOrder == <<"level", "ev">>
\* the codes an update dictionary may carry: the attributes and one unknown code
Codes == Attrs \cup {"nope"}
RawValues == {1, 7, NotANumber}
Stamps == 0..(MaxTime + MaxAdvance)

AttrDef ==
    [level |-> [is_null |-> FALSE, minimum |-> 0, maximum |-> 3,
                bounded |-> TRUE, clear_value |-> FALSE],
     ev    |-> [is_null |-> TRUE, minimum |-> 0, maximum |-> 0,
                bounded |-> FALSE, clear_value |-> FALSE]]

VARIABLES
    bridge_instance,   \* TRUE when a bridge is bound (Model.bridge_instance)
    reachable,         \* what bridge_instance.reachable() answers
    ivalue,            \* attribute._ivalue, by attribute code
    ovalue,            \* attribute._ovalue, by attribute code
    itimestamp,        \* Model._itimestamp
    otimestamp,        \* Model._otimestamp
    pushes,            \* Model._pushes
    ticks,             \* the process.nextTick queue, oldest first
    inflight,          \* the bag of the pushd of the pushes the bridge holds a callback for
    callbacksd,        \* Model.__callbacksd: callbacks registered, by attribute code
    meta_updated,      \* Meta._updated, by metadata key
    meta_timestamp,    \* Meta._updated["@timestamp"]
    reachabled,        \* reachabled[thing_id]: the reachability last recorded
    ctimestamp,        \* Model._ctimestamp
    now,               \* the clock read by _.timestamp.make()
    band,              \* the band argument of this behaviour's update calls
    call,              \* the options and incoming timestamp of the last step's update
    op,                \* the operation the last step ran
    res,               \* how the last step ended
    emitted,           \* the events the last step emitted synchronously, in order
    members,           \* the elements of each ThingArray, in order
    thing_tag,         \* whether thing.initd.tag holds the tag "t", by Thing
    thing_zone,        \* the iot:zone of the Thing's metadata, by Thing
    _persistds,        \* ThingArray._persistds, by array (empty when null)
    is_persist,        \* ThingArray.is_persist(), by array
    made,              \* the derived arrays made so far
    alog,              \* what the last array call emitted, replayed and applied
    acall,             \* the last array call
    derive,            \* what this behaviour does with A: "filter", "merge", "replay", "disconnect"
    on_thing,          \* the number of callbacks registered with on("thing"), by array
    thing_bridge,      \* whether the Thing's bridge_instance is set, by Thing
    __attributes,      \* Model.__attributes of the Thing find searches
    find_key,          \* the find_key argument of find
    mode,              \* paramd.mode of find
    match,             \* what find returned, once it was called
    attribute,         \* the Attribute that validates: its iot:type list and its bounds
    raw,               \* the raw value handed to _convert and validate
    converted,         \* what _convert returned, once it was called
    validated,         \* paramd.value after validate, once it was called
    binding,           \* the binding of the BridgeWrapper: its matchd, the bridge's ignore
    wrapper,           \* the BridgeWrapper: constructed, discovering, its models and connects
    wlog               \* what the last step of the BridgeWrapper emitted and called, in order

thingVars == <<bridge_instance, reachable, ivalue, ovalue, itimestamp, otimestamp,
               pushes, ticks, inflight, callbacksd, meta_updated, meta_timestamp,
               reachabled, ctimestamp, now, band, call, op, res, emitted>>
arrayVars == <<members, thing_tag, thing_zone, _persistds, is_persist, made, alog, acall,
               derive, on_thing, thing_bridge>>
findVars == <<__attributes, find_key, mode, match>>
convertVars == <<attribute, raw, converted, validated>>
wrapperVars == <<binding, wrapper, wlog>>
pureVars == <<findVars, convertVars, wrapperVars>>
vars == <<thingVars, arrayVars, pureVars>>

bridgeVars == <<bridge_instance, reachable>>
istateVars == <<ivalue, itimestamp>>
ostateVars == <<ovalue, otimestamp>>
metaVars == <<meta_updated, meta_timestamp>>
connVars == <<reachabled, ctimestamp>>

\* ------------------------------------------------------------ timestamps
\* _.timestamp.make(): the current time
timestamp_make == now

\* _.timestamp.add(d): d with "@timestamp" set to the current time when it has none
timestamp_add(ts) == IF ts = NoTS THEN timestamp_make ELSE ts

\* _.timestamp.advance(ts): the current time, or just after ts when ts is not earlier
timestamp_advance(ts) ==
    IF ts = NoTS \/ timestamp_make > ts THEN timestamp_make ELSE ts + 1

\* _.timestamp.check.values(stored, incoming): may the incoming update be applied
check_values(stored, incoming) ==
    IF stored = NoTS THEN TRUE
    ELSE IF incoming = NoTS THEN FALSE
    ELSE incoming >= stored

\* ------------------------------------------------------------ attributes
\* Attribute._bounded
_bounded(value, a) ==
    IF ~AttrDef[a].bounded THEN value
    ELSE IF value < AttrDef[a].minimum THEN AttrDef[a].minimum
    ELSE IF value > AttrDef[a].maximum THEN AttrDef[a].maximum
    ELSE value

\* validate_value that hands every value back as it came
validate_value_raw(a, value) == value

\* Attribute.validate_value for a scalar attribute: _convert, then _bounded for a number
validate_value(a, value) ==
    IF AttrDef[a].is_null THEN value
    ELSE IF value = NotANumber THEN Undefined
    ELSE _bounded(value, a)

\* a comparison that finds every pair of values different
never_equal(x, y) == FALSE

\* JavaScript ===: NaN is not equal to itself
strict_equal(x, y) == x = y /\ x # NotANumber

\* ----------------------------------------------------------- tick queue
NoPush == [a \in Attrs |-> Undefined]
PushTask(pushd) == [kind |-> "push", code |-> "", pushd |-> pushd]
EmitTask(event) == [kind |-> "emit", code |-> event, pushd |-> NoPush]
CallbackTask(a) == [kind |-> "callback", code |-> a, pushd |-> NoPush]

CountPushes(q) == Cardinality({i \in 1..Len(q) : q[i].kind = "push"})

\* the bounds of the model: the queue, the pushes under way and the timestamps
WithinBounds ==
    /\ Len(ticks') <= MaxTicks
    /\ CountPushes(ticks') + BagCardinality(inflight') <= MaxPushes
    /\ otimestamp' \in Stamps

\* ------------------------------------------------------------------ find
\* The attributes of the searched Thing are modelled by their iot:purpose and by
\* whether they carry iot:sensor and iot:actuator; the code of an attribute is its
\* position in Model.__attributes.
Purposes == {"on", "off"}
AttributeKinds == [purpose : Purposes, sensor : BOOLEAN, actuator : BOOLEAN]
AttributeLists == UNION {[1..n -> AttributeKinds] : n \in 0..MaxAttributes}

\* a find_key: an attribute code, a string ":purpose", or a dictionary that may
\* constrain iot:purpose ("" when it does not) and may carry a schema:name
CodeKey(n) == [kind |-> "code", code |-> n, purpose |-> "", name |-> FALSE]
PurposeKey(p) == [kind |-> "purpose", code |-> 0, purpose |-> p, name |-> FALSE]
DictKey(p, named) == [kind |-> "dict", code |-> 0, purpose |-> p, name |-> named]
FindKeys == {CodeKey(1), CodeKey(MaxAttributes + 1), PurposeKey("on"),
             DictKey("on", FALSE), DictKey("off", TRUE), DictKey("dim", FALSE),
             DictKey("", FALSE)}
\* "none" is any mode other than "set", "get" and "on"
Modes == {"set", "get", "on", "none"}

\* the loop of find over the attributes: the positions of the attributes that carry
\* every constraint of the dictionary, schema:name being skipped
_find_matches(attributes, d) ==
    SelectSeq([i \in 1..Len(attributes) |-> i],
              LAMBDA i : d.purpose # "" => attributes[i].purpose = d.purpose)

\* the first of the matches that is a sensor, or an actuator
_match_sensor(attributes, matches) ==
    LET s == SelectSeq(matches, LAMBDA i : attributes[i].sensor)
    IN  IF s = <<>> THEN Undefined ELSE s[1]

_match_actuator(attributes, matches) ==
    LET s == SelectSeq(matches, LAMBDA i : attributes[i].actuator)
    IN  IF s = <<>> THEN Undefined ELSE s[1]

\* find that answers the first match whatever the mode
find_first_match(attributes, key, paramd_mode) ==
    IF key.kind = "code"
    THEN IF key.code \in 1..Len(attributes) THEN key.code ELSE Undefined
    ELSE LET matches == _find_matches(attributes, key)
         IN  IF matches = <<>> THEN Undefined ELSE matches[1]

\* Model.find: the position of the attribute found, or Undefined.  A string with a
\* ":" is searched as the dictionary {iot:purpose: ...} under the same mode.
find(attributes, key, paramd_mode) ==
    IF key.kind = "code"
    THEN IF key.code \in 1..Len(attributes) THEN key.code ELSE Undefined
    ELSE LET matches == _find_matches(attributes, key)
             match_sensor == _match_sensor(attributes, matches)
             match_actuator == _match_actuator(attributes, matches)
         IN  IF Len(matches) = 1 THEN matches[1]
             ELSE IF paramd_mode = "set" /\ match_actuator # Undefined THEN match_actuator
             ELSE IF paramd_mode = "get" /\ match_sensor # Undefined THEN match_sensor
             ELSE IF paramd_mode = "on" /\ match_sensor # Undefined THEN match_sensor
             ELSE IF match_actuator # Undefined THEN match_actuator
             ELSE IF match_sensor # Undefined THEN match_sensor
             ELSE IF matches = <<>> THEN Undefined
             ELSE matches[1]

NoMatch == [called |-> FALSE, rd |-> Undefined]

\* thing.find(find_key, {mode: mode})
Find ==
    /\ ~match.called
    /\ match' = [called |-> TRUE, rd |-> find(__attributes, find_key, mode)]
    /\ UNCHANGED <<__attributes, find_key, mode, thingVars, arrayVars, convertVars, wrapperVars>>

FindIdle ==
    /\ __attributes = <<>>
    /\ find_key = CodeKey(1)
    /\ mode = "get"
    /\ match = NoMatch

\* ------------------------------------------------------------ validation
\* JavaScript values.  A number is kept as its double, an integer, so that the
\* halves are numbers of the model: n = 3 is 1.5.  Strings are the decimal text of
\* a number of the model or a word that does not parse as a number.
Bool(b) == [type |-> "boolean", b |-> b, n |-> 0, s |-> ""]
Num(h) == [type |-> "number", b |-> FALSE, n |-> h, s |-> ""]
Str(s) == [type |-> "string", b |-> FALSE, n |-> 0, s |-> s]
JsUndefined == [type |-> "undefined", b |-> FALSE, n |-> 0, s |-> ""]
JsNull == [type |-> "null", b |-> FALSE, n |-> 0, s |-> ""]

Halves == (-2 * MaxNumber)..(2 * MaxNumber)

\* "" + value for a number
Text(h) ==
    IF h % 2 = 0 THEN ToString(h \div 2)
    ELSE IF h > 0 THEN ToString(h \div 2) \o ".5"
    ELSE "-" \o ToString((-h) \div 2) \o ".5"

\* parseFloat(value) of a string gave a number (not NaN), and that number
Parses(s) == \E h \in Halves : Text(h) = s
parseFloat(s) == CHOOSE h \in Halves : Text(h) = s

\* Math.round: to the nearest integer, a half going up
Math_round(h) == 2 * ((h + 1) \div 2)

\* value.toLowerCase() for the words of the model
toLowerCase(s) == IF s = "OFF" THEN "off" ELSE s

\* _.is.Integer
is_Integer(value) == value.type = "number" /\ value.n % 2 = 0

\* a declared iot:minimum or iot:maximum, or none
Bound(n) == [declared |-> TRUE, n |-> 2 * n]
NoBound == [declared |-> FALSE, n |-> 0]
Bounds == {NoBound} \cup {Bound(n) : n \in (-MaxNumber)..MaxNumber}

\* the attributes that validate: any iot:type list over the four scalar types, any
\* bounds, no iot:format, neither a list nor a set
TypeNames == {"boolean", "integer", "number", "string"}
Attributes == [types : SUBSET TypeNames, minimum : Bounds, maximum : Bounds]

\* the raw values: undefined, the booleans, every number and a few strings
RawStrings == {"", "off", "OFF", "no", "yes", Text(0), Text(3), Text(2 * MaxNumber)}
ScalarValues == {JsUndefined} \cup {Bool(b) : b \in BOOLEAN} \cup {Num(h) : h \in Halves}
                  \cup {Str(s) : s \in RawStrings}

\* Attribute._default
_default(value, types) ==
    IF "boolean" \in types THEN Bool(FALSE)
    ELSE IF "integer" \in types THEN Num(0)
    ELSE IF "number" \in types THEN Num(0)
    ELSE IF "string" \in types THEN Str("")
    ELSE JsNull

\* Attribute._convert_boolean: minimum and maximum are null when not declared, and
\* "minimum || 0", "maximum || 1" replace a null and a 0 alike
_convert_boolean(value, types, minimum, maximum) ==
    LET min == IF minimum.declared /\ minimum.n # 0 THEN minimum.n ELSE 0
        max == IF maximum.declared /\ maximum.n # 0 THEN maximum.n ELSE 2
    IN  IF "boolean" \in types THEN value
        ELSE IF "integer" \in types THEN Num(IF value.b THEN max ELSE min)
        ELSE IF "number" \in types THEN Num(IF value.b THEN max ELSE min)
        ELSE IF "string" \in types THEN Str(IF value.b THEN "1" ELSE "0")
        ELSE value

\* Attribute._convert_integer
_convert_integer(value, types) ==
    IF "boolean" \in types THEN Bool(value.n # 0)
    ELSE IF "integer" \in types THEN value
    ELSE IF "number" \in types THEN Num(Math_round(value.n))
    ELSE IF "string" \in types THEN Str(Text(value.n))
    ELSE value

\* Attribute._convert_number
_convert_number(value, types) ==
    IF "boolean" \in types THEN Bool(value.n # 0)
    ELSE IF "number" \in types THEN value
    ELSE IF "integer" \in types THEN Num(Math_round(value.n))
    ELSE IF "string" \in types THEN Str(Text(value.n))
    ELSE value

\* _convert_string that hands every string back as it came
_convert_string_keeps(value, types) == value

\* Attribute._convert_string
_convert_string(value, types) ==
    IF "string" \in types THEN value
    ELSE IF "boolean" \in types
    THEN Bool(toLowerCase(value.s) \notin {"", "0", "off", "false", "no"})
    ELSE IF "integer" \in types
    THEN IF Parses(value.s) THEN Num(Math_round(parseFloat(value.s))) ELSE JsUndefined
    ELSE IF "number" \in types
    THEN IF Parses(value.s) THEN Num(parseFloat(value.s)) ELSE JsUndefined
    ELSE value

\* Attribute._convert
_convert(self, value, types) ==
    IF value.type = "undefined" THEN _default(value, types)
    ELSE IF value.type = "boolean"
    THEN _convert_boolean(value, types, self.minimum, self.maximum)
    ELSE IF is_Integer(value) THEN _convert_integer(value, types)
    ELSE IF value.type = "number" THEN _convert_number(value, types)
    ELSE IF value.type = "string" THEN _convert_string(value, types)
    ELSE value

\* _bounded that hands every number back as it came
Attribute_unbounded(value, min, max) == value

\* Attribute._bounded(value, min, max): min and max are undefined when not declared
Attribute_bounded(value, min, max) ==
    LET low == IF min.declared /\ value.n < min.n THEN Num(min.n) ELSE value
    IN  IF max.declared /\ low.n > max.n THEN Num(max.n) ELSE low

\* Attribute.validate for a value that is no Date, on an attribute without iot:format
validate(self, value) ==
    LET c == _convert(self, value, self.types)
    IN  IF c.type = "number" THEN Attribute_bounded(c, self.minimum, self.maximum) ELSE c

NotCalled == [called |-> FALSE, value |-> JsUndefined]

\* attribute._convert(raw, iot_types)
Convert ==
    /\ ~converted.called
    /\ converted' = [called |-> TRUE, value |-> _convert(attribute, raw, attribute.types)]
    /\ UNCHANGED <<attribute, raw, validated, thingVars, arrayVars, findVars, wrapperVars>>

\* attribute.validate({value: raw})
Validate ==
    /\ ~validated.called
    /\ validated' = [called |-> TRUE, value |-> validate(attribute, raw)]
    /\ UNCHANGED <<attribute, raw, converted, thingVars, arrayVars, findVars, wrapperVars>>

ConvertIdle ==
    /\ attribute = [types |-> {}, minimum |-> NoBound, maximum |-> NoBound]
    /\ raw = JsUndefined
    /\ converted = NotCalled
    /\ validated = NotCalled

\* -------------------------------------------------------- bridge wrapper
\* the bridge instances a discovery may report and their compacted meta(): the value
\* of each key, Missing when the bridge has none
Bridges == {"b1", "b2", "b3"}
MatchKeys == {"name", "zone"}
Missing == "missing"
BridgeMeta ==
    [b1 |-> [name |-> "hue", zone |-> "A"],
     b2 |-> [name |-> "wemo", zone |-> "A"],
     b3 |-> [name |-> Missing, zone |-> Missing]]

\* binding.matchd: not given, or a dictionary (possibly empty); and whether the
\* bridge has an ignore method
NoMatchd == [k \in MatchKeys |-> Missing]
Matchds == {NoMatchd,
            [name |-> "hue", zone |-> Missing],
            [name |-> "hue", zone |-> "A"],
            [name |-> Missing, zone |-> "B"]}
NoBinding == [has_matchd |-> FALSE, matchd |-> NoMatchd, has_ignore |-> FALSE]
Bindings ==
    {[has_matchd |-> TRUE, matchd |-> d, has_ignore |-> i] :
        d \in Matchds, i \in BOOLEAN}
    \cup {[NoBinding EXCEPT !.has_ignore = i] : i \in BOOLEAN}

\* _.d_contains_d(superd, subd): every key of subd is in superd with the same value
d_contains_d(superd, subd) ==
    \A k \in MatchKeys : subd[k] # Missing => superd[k] = subd[k]

NotConstructed ==
    [constructed |-> FALSE, discovering |-> FALSE, reports |-> 0,
     models |-> <<>>, connected |-> <<>>]
WrapperIdle ==
    /\ binding = NoBinding
    /\ wrapper = NotConstructed
    /\ wlog = <<>>

PureIdle == FindIdle /\ ConvertIdle /\ WrapperIdle

\* The modelled Thing as find sees it: "level" carries the purpose "on", "ev" the
\* purpose "off", and both are sensors and actuators.
ThingAttributes ==
    [i \in 1..Len(AttrOrder) |->
        [purpose |-> IF AttrOrder[i] = "level" THEN "on" ELSE "off",
         sensor |-> TRUE, actuator |-> TRUE]]

\* the keys handed to set, get and on: the strings of Codes, the string ":dim", the
\* dictionary {iot:purpose: iot-purpose:dim} and the number 42
DimKey == ":dim"
DictDimKey == "{iot:purpose: dim}"
NumberKey == "#42"
StringKeys == Codes \cup {DimKey}
DictionaryKeys == {DictDimKey}

\* _.is.String
is_String(key) == key \in StringKeys

\* _.is.FindKey: a String or a Dictionary
is_FindKey(key) == key \in StringKeys \cup DictionaryKeys

\* the find_key of the find model a key stands for
FindKeyOf(key) ==
    IF key = DimKey THEN PurposeKey("dim")
    ELSE IF key = DictDimKey THEN DictKey("dim", FALSE)
    ELSE IF \E i \in 1..Len(AttrOrder) : AttrOrder[i] = key
    THEN CodeKey(CHOOSE i \in 1..Len(AttrOrder) : AttrOrder[i] = key)
    ELSE CodeKey(Len(AttrOrder) + 1)

\* self.find(find_key, {mode: ...}) on the modelled Thing: the position found
self_find(key, paramd_mode) == find(ThingAttributes, FindKeyOf(key), paramd_mode)

\* ----------------------------------------------------------- output band
\* _clear_ostate that clears without telling the listeners
_clear_ostate_silent(ov, och, ots) ==
    LET changed == \E a \in Attrs : ~((ov[a] = Null) /\ ~och[a])
    IN  [ovalue     |-> [a \in Attrs |-> Null],
         otimestamp |-> IF changed THEN timestamp_advance(ots) ELSE ots,
         emitted    |-> <<>>]

\* _clear_ostate that leaves every output value where it is
_clear_ostate_keeps(ov, och, ots) ==
    [ovalue |-> ov, otimestamp |-> ots, emitted |-> <<>>]

\* Model._clear_ostate: every attribute with an output value (or marked changed) is
\* cleared; when one was, the band timestamp advances and "ostate" is emitted at once
_clear_ostate(ov, och, ots) ==
    LET changed == \E a \in Attrs : ~((ov[a] = Null) /\ ~och[a])
    IN  [ovalue     |-> [a \in Attrs |-> IF (ov[a] = Null) /\ ~och[a] THEN ov[a] ELSE Null],
         otimestamp |-> IF changed THEN timestamp_advance(ots) ELSE ots,
         emitted    |-> IF changed THEN <<"ostate">> ELSE <<>>]

\* _push_attributes that leaves the push out while another one is outstanding
_push_attributes_coalesced(attributes, ov, och, ots) ==
    IF ~bridge_instance \/ ~reachable
    THEN LET c == _clear_ostate(ov, och, ots)
         IN  [ovalue |-> c.ovalue, otimestamp |-> c.otimestamp,
              emitted |-> c.emitted, tasks |-> <<>>]
    ELSE LET pushd == [a \in Attrs |-> IF a \in attributes THEN ov[a] ELSE Undefined]
         IN  [ovalue     |-> ov,
              otimestamp |-> ots,
              emitted    |-> <<>>,
              tasks      |-> IF attributes = {} \/ pushes > 0 THEN <<>> ELSE <<PushTask(pushd)>>]

\* Model._push_attributes up to the nextTick: without a reachable bridge the band is
\* cleared; otherwise the values are copied into pushd and the push is scheduled
_push_attributes(attributes, ov, och, ots) ==
    IF ~bridge_instance \/ ~reachable
    THEN LET c == _clear_ostate(ov, och, ots)
         IN  [ovalue |-> c.ovalue, otimestamp |-> c.otimestamp,
              emitted |-> c.emitted, tasks |-> <<>>]
    ELSE LET pushd == [a \in Attrs |-> IF a \in attributes THEN ov[a] ELSE Undefined]
         IN  [ovalue     |-> [a \in Attrs |->
                                IF a \in attributes /\ AttrDef[a].clear_value
                                THEN Null ELSE ov[a]],
              otimestamp |-> ots,
              emitted    |-> <<>>,
              tasks      |-> IF attributes = {} THEN <<>> ELSE <<PushTask(pushd)>>]

\* the defaults of Model._update_ostate
OstateDefaults ==
    [add_timestamp |-> TRUE, check_timestamp |-> TRUE, set_timestamp |-> TRUE,
     notify |-> TRUE, validate |-> TRUE]

Paramds == [add_timestamp : BOOLEAN, check_timestamp : BOOLEAN, set_timestamp : BOOLEAN,
            notify : BOOLEAN, validate : BOOLEAN]

\* the update dictionaries tried: any raw value or none for "level", one value or
\* none for "ev" and for the unknown code
Updateds ==
    {[level |-> l, ev |-> e, nope |-> n] :
        l \in RawValues \cup {Undefined}, e \in {7, Undefined}, n \in {1, Undefined}}

\* _update_ostate that never looks at the timestamps
_update_ostate_unchecked(updated, ts_in, paramd) ==
    LET ts == IF paramd.add_timestamp THEN timestamp_add(ts_in) ELSE ts_in
        value(a) == IF paramd.validate THEN validate_value(a, updated[a]) ELSE updated[a]
        changes(a) == /\ updated[a] # Undefined
                      /\ value(a) # Undefined
                      /\ (AttrDef[a].is_null \/ ~strict_equal(ovalue[a], value(a)))
        changed_attributes == {a \in Attrs : changes(a)}
        ov1 == [a \in Attrs |-> IF changes(a) THEN value(a) ELSE ovalue[a]]
        och1 == [a \in Attrs |-> changes(a)]
        p == _push_attributes(changed_attributes, ov1, och1, otimestamp)
    IN  IF FALSE
        THEN [ovalue |-> ovalue, otimestamp |-> otimestamp, tasks |-> <<>>,
              emitted |-> <<>>, res |-> "rejected"]
        ELSE IF changed_attributes = {}
        THEN [ovalue |-> ovalue, otimestamp |-> otimestamp, tasks |-> <<>>,
              emitted |-> <<>>, res |-> "unchanged"]
        ELSE [ovalue     |-> p.ovalue,
              otimestamp |-> IF paramd.set_timestamp
                             THEN (IF ts # NoTS THEN ts ELSE timestamp_make)
                             ELSE p.otimestamp,
              tasks      |-> p.tasks
                             \o (IF paramd.notify THEN <<EmitTask("state")>> ELSE <<>>)
                             \o <<EmitTask("ostate")>>,
              emitted    |-> p.emitted,
              res        |-> "applied"]

\* Model._update_ostate, as the values it leaves and the callbacks it schedules
_update_ostate(updated, ts_in, paramd) ==
    LET ts == IF paramd.add_timestamp THEN timestamp_add(ts_in) ELSE ts_in
        value(a) == IF paramd.validate THEN validate_value(a, updated[a]) ELSE updated[a]
        changes(a) == /\ updated[a] # Undefined
                      /\ value(a) # Undefined
                      /\ (AttrDef[a].is_null \/ ~strict_equal(ovalue[a], value(a)))
        changed_attributes == {a \in Attrs : changes(a)}
        ov1 == [a \in Attrs |-> IF changes(a) THEN value(a) ELSE ovalue[a]]
        och1 == [a \in Attrs |-> changes(a)]
        p == _push_attributes(changed_attributes, ov1, och1, otimestamp)
    IN  IF paramd.check_timestamp /\ ~check_values(otimestamp, ts)
        THEN [ovalue |-> ovalue, otimestamp |-> otimestamp, tasks |-> <<>>,
              emitted |-> <<>>, res |-> "rejected"]
        ELSE IF changed_attributes = {}
        THEN [ovalue |-> ovalue, otimestamp |-> otimestamp, tasks |-> <<>>,
              emitted |-> <<>>, res |-> "unchanged"]
        ELSE [ovalue     |-> p.ovalue,
              otimestamp |-> IF paramd.set_timestamp
                             THEN (IF ts # NoTS THEN ts ELSE timestamp_make)
                             ELSE p.otimestamp,
              tasks      |-> p.tasks
                             \o (IF paramd.notify THEN <<EmitTask("state")>> ELSE <<>>)
                             \o <<EmitTask("ostate")>>,
              emitted    |-> p.emitted,
              res        |-> "applied"]

\* what `call` keeps of an update: its options, its incoming timestamp and its
\* dictionary; of a set, get or on: its find_key
CallOf(paramd, ts, updated) ==
    [check_timestamp |-> paramd.check_timestamp, set_timestamp |-> paramd.set_timestamp,
     notify |-> paramd.notify, validate |-> paramd.validate, ts |-> ts,
     updated |-> updated, key |-> ""]
NoUpdated == [c \in Codes |-> Undefined]
NoCall ==
    [check_timestamp |-> FALSE, set_timestamp |-> FALSE, notify |-> FALSE,
     validate |-> FALSE, ts |-> NoTS, updated |-> NoUpdated, key |-> ""]

\* Model.update("ostate", updated, paramd)
UpdateOstate(updated, ts_in, paramd) ==
    /\ band = "ostate"
    /\ \E u \in {_update_ostate(updated, ts_in, paramd)} :
        /\ call' = CallOf(paramd,
                          IF paramd.add_timestamp THEN timestamp_add(ts_in) ELSE ts_in,
                          updated)
        /\ ovalue' = u.ovalue
        /\ otimestamp' = u.otimestamp
        /\ ticks' = ticks \o u.tasks
        /\ emitted' = u.emitted
        /\ op' = "update_ostate"
        /\ res' = u.res
        /\ UNCHANGED <<bridgeVars, istateVars, metaVars, connVars, pushes, inflight,
                       callbacksd, now, band, arrayVars, pureVars>>
        /\ WithinBounds

\* Model.set(find_key, new_value) with a new_value that is not undefined
Set(code, new_value) ==
    IF ~is_FindKey(code)
    THEN /\ op' = "set"
         /\ res' = "throw"
         /\ emitted' = <<>>
         /\ call' = [NoCall EXCEPT !.key = code]
         /\ UNCHANGED <<bridgeVars, istateVars, ostateVars, metaVars, connVars, pushes,
                        ticks, inflight, callbacksd, now, band, arrayVars, pureVars>>
    ELSE IF self_find(code, "set") = Undefined
    THEN /\ op' = "set"
         /\ res' = "notfound"
         /\ emitted' = <<>>
         /\ call' = [NoCall EXCEPT !.key = code]
         /\ UNCHANGED <<bridgeVars, istateVars, ostateVars, metaVars, connVars, pushes,
                        ticks, inflight, callbacksd, now, band, arrayVars, pureVars>>
    ELSE \E updated \in {[c \in Codes |->
                             IF c = AttrOrder[self_find(code, "set")]
                             THEN new_value ELSE Undefined]} :
         \E u \in {_update_ostate(updated, timestamp_make,
                                   [OstateDefaults EXCEPT !.check_timestamp = FALSE])} :
             /\ call' = [CallOf([OstateDefaults EXCEPT !.check_timestamp = FALSE],
                                timestamp_make, updated) EXCEPT !.key = code]
             /\ ovalue' = u.ovalue
             /\ otimestamp' = u.otimestamp
             /\ ticks' = ticks \o u.tasks
             /\ emitted' = u.emitted
             /\ op' = "set"
             /\ res' = u.res
             /\ UNCHANGED <<bridgeVars, istateVars, metaVars, connVars, pushes, inflight,
                            callbacksd, now, band, arrayVars, pureVars>>
             /\ WithinBounds

\* Model.get(find_key): the input value, else the output value, else null
Get(code) ==
    /\ op' = "get"
    /\ call' = [NoCall EXCEPT !.key = code]
    /\ emitted' = <<>>
    /\ res' = IF ~is_FindKey(code) THEN "throw"
              ELSE IF self_find(code, "get") = Undefined THEN "notfound"
              ELSE IF ivalue[AttrOrder[self_find(code, "get")]] # Null THEN "ivalue"
              ELSE IF ovalue[AttrOrder[self_find(code, "get")]] # Null THEN "ovalue"
              ELSE "null"
    /\ UNCHANGED <<bridgeVars, istateVars, ostateVars, metaVars, connVars, pushes,
                   ticks, inflight, callbacksd, now, band, arrayVars, pureVars>>

\* ------------------------------------------------------------ input band
\* the per-attribute callbacks one update schedules, in attribute order
CallbacksOf(a, changed_attributes) ==
    IF a \in changed_attributes
    THEN [i \in 1..callbacksd[a] |-> CallbackTask(a)]
    ELSE <<>>

\* the defaults of Model._update_istate
IstateDefaults ==
    [add_timestamp |-> FALSE, check_timestamp |-> TRUE, set_timestamp |-> TRUE,
     notify |-> TRUE, validate |-> FALSE]

\* _update_istate that emits "state" once for every changed attribute
_update_istate_per_attribute(updated, ts_in, paramd) ==
    LET value(a) == IF paramd.validate THEN validate_value(a, updated[a]) ELSE updated[a]
        changes(a) == /\ updated[a] # Undefined
                      /\ value(a) # Undefined
                      /\ (AttrDef[a].is_null \/ ~strict_equal(ivalue[a], value(a)))
        changed_attributes == {a \in Attrs : changes(a)}
    IN  IF paramd.check_timestamp /\ ~check_values(itimestamp, ts_in)
        THEN [ivalue |-> ivalue, itimestamp |-> itimestamp, tasks |-> <<>>,
              res |-> "rejected"]
        ELSE IF changed_attributes = {}
        THEN [ivalue |-> ivalue, itimestamp |-> itimestamp, tasks |-> <<>>,
              res |-> "unchanged"]
        ELSE [ivalue     |-> [a \in Attrs |-> IF changes(a) THEN value(a) ELSE ivalue[a]],
              itimestamp |-> IF paramd.set_timestamp
                             THEN (IF ts_in # NoTS THEN ts_in ELSE timestamp_make)
                             ELSE itimestamp,
              tasks      |-> (IF paramd.notify
                              THEN CallbacksOf(AttrOrder[1], changed_attributes)
                                   \o CallbacksOf(AttrOrder[2], changed_attributes)
                                   \o [i \in 1..Cardinality(changed_attributes) |->
                                          EmitTask("state")]
                              ELSE <<>>)
                             \o <<EmitTask("istate")>>,
              res        |-> "applied"]

\* _update_istate that never looks at the timestamps
_update_istate_unchecked(updated, ts_in, paramd) ==
    LET value(a) == IF paramd.validate THEN validate_value(a, updated[a]) ELSE updated[a]
        changes(a) == /\ updated[a] # Undefined
                      /\ value(a) # Undefined
                      /\ (AttrDef[a].is_null \/ ~strict_equal(ivalue[a], value(a)))
        changed_attributes == {a \in Attrs : changes(a)}
    IN  IF FALSE
        THEN [ivalue |-> ivalue, itimestamp |-> itimestamp, tasks |-> <<>>,
              res |-> "rejected"]
        ELSE IF changed_attributes = {}
        THEN [ivalue |-> ivalue, itimestamp |-> itimestamp, tasks |-> <<>>,
              res |-> "unchanged"]
        ELSE [ivalue     |-> [a \in Attrs |-> IF changes(a) THEN value(a) ELSE ivalue[a]],
              itimestamp |-> IF paramd.set_timestamp
                             THEN (IF ts_in # NoTS THEN ts_in ELSE timestamp_make)
                             ELSE itimestamp,
              tasks      |-> (IF paramd.notify
                              THEN CallbacksOf(AttrOrder[1], changed_attributes)
                                   \o CallbacksOf(AttrOrder[2], changed_attributes)
                                   \o <<EmitTask("state")>>
                              ELSE <<>>)
                             \o <<EmitTask("istate")>>,
              res        |-> "applied"]

\* Model._update_istate, as the values it leaves and the callbacks it schedules
\* (paramd.add_timestamp is not read by it)
_update_istate(updated, ts_in, paramd) ==
    LET value(a) == IF paramd.validate THEN validate_value(a, updated[a]) ELSE updated[a]
        changes(a) == /\ updated[a] # Undefined
                      /\ value(a) # Undefined
                      /\ (AttrDef[a].is_null \/ ~strict_equal(ivalue[a], value(a)))
        changed_attributes == {a \in Attrs : changes(a)}
    IN  IF paramd.check_timestamp /\ ~check_values(itimestamp, ts_in)
        THEN [ivalue |-> ivalue, itimestamp |-> itimestamp, tasks |-> <<>>,
              res |-> "rejected"]
        ELSE IF changed_attributes = {}
        THEN [ivalue |-> ivalue, itimestamp |-> itimestamp, tasks |-> <<>>,
              res |-> "unchanged"]
        ELSE [ivalue     |-> [a \in Attrs |-> IF changes(a) THEN value(a) ELSE ivalue[a]],
              itimestamp |-> IF paramd.set_timestamp
                             THEN (IF ts_in # NoTS THEN ts_in ELSE timestamp_make)
                             ELSE itimestamp,
              tasks      |-> (IF paramd.notify
                              THEN CallbacksOf(AttrOrder[1], changed_attributes)
                                   \o CallbacksOf(AttrOrder[2], changed_attributes)
                                   \o <<EmitTask("state")>>
                              ELSE <<>>)
                             \o <<EmitTask("istate")>>,
              res        |-> "applied"]

\* Model.update("istate", updated, paramd)
UpdateIstate(updated, ts_in, paramd) ==
    /\ band = "istate"
    /\ \E u \in {_update_istate(updated, ts_in, paramd)} :
        /\ call' = CallOf(paramd, ts_in, updated)
        /\ ivalue' = u.ivalue
        /\ itimestamp' = u.itimestamp
        /\ ticks' = ticks \o u.tasks
        /\ emitted' = <<>>
        /\ op' = "update_istate"
        /\ res' = u.res
        /\ UNCHANGED <<bridgeVars, ostateVars, metaVars, connVars, pushes, inflight,
                       callbacksd, now, band, arrayVars, pureVars>>
        /\ WithinBounds

\* Model.on(find_key, callback) with a function as the callback and a find_key
\* that is neither null nor the name of a band
On(code) ==
    /\ call' = [NoCall EXCEPT !.key = code]
    /\ op' = "on"
    /\ emitted' = <<>>
    /\ IF ~is_FindKey(code)
       THEN /\ UNCHANGED callbacksd
            /\ res' = "throw"
       ELSE IF self_find(code, "on") = Undefined
       THEN /\ UNCHANGED callbacksd
            /\ res' = "notfound"
       ELSE /\ callbacksd[AttrOrder[self_find(code, "on")]] < MaxCallbacks
            /\ callbacksd' = [callbacksd EXCEPT ![AttrOrder[self_find(code, "on")]] = @ + 1]
            /\ res' = "registered"
    /\ UNCHANGED <<bridgeVars, istateVars, ostateVars, metaVars, connVars, pushes,
                   ticks, inflight, now, band, arrayVars, pureVars>>

\* ------------------------------------------------------------- tick queue
\* a scheduled emit of "state", "istate", "ostate" or "meta" runs
TickEmit ==
    /\ call' = NoCall
    /\ ticks # <<>>
    /\ Head(ticks).kind = "emit"
    /\ ticks' = Tail(ticks)
    /\ emitted' = <<Head(ticks).code>>
    /\ op' = "tick"
    /\ res' = "emit"
    /\ UNCHANGED <<bridgeVars, istateVars, ostateVars, metaVars, connVars, pushes,
                   inflight, callbacksd, now, band, arrayVars, pureVars>>

\* a scheduled per-attribute callback runs
TickCallback ==
    /\ call' = NoCall
    /\ ticks # <<>>
    /\ Head(ticks).kind = "callback"
    /\ ticks' = Tail(ticks)
    /\ emitted' = <<Head(ticks).code>>
    /\ op' = "tick"
    /\ res' = "callback"
    /\ UNCHANGED <<bridgeVars, istateVars, ostateVars, metaVars, connVars, pushes,
                   inflight, callbacksd, now, band, arrayVars, pureVars>>

NoneChanged == [a \in Attrs |-> FALSE]

\* the callback handed to bridge_instance.push: the error is logged and
\* `if (--self._pushes === 0) { self._clear_ostate(); }`
_push_callback(p, ov, ots) ==
    LET c == _clear_ostate(ov, NoneChanged, ots)
    IN  IF p - 1 = 0
        THEN [pushes |-> p - 1, ovalue |-> c.ovalue, otimestamp |-> c.otimestamp,
              emitted |-> c.emitted]
        ELSE [pushes |-> p - 1, ovalue |-> ov, otimestamp |-> ots, emitted |-> <<>>]

\* a catch block that counts the failed push down twice
_push_catch_twice(p, ov, ots) ==
    LET c == _clear_ostate(ov, NoneChanged, ots)
    IN  IF p - 2 <= 0
        THEN [pushes |-> p - 2, ovalue |-> c.ovalue, otimestamp |-> c.otimestamp,
              emitted |-> c.emitted]
        ELSE [pushes |-> p - 2, ovalue |-> ov, otimestamp |-> ots, emitted |-> <<>>]

\* a catch block that only logs the exception
_push_catch_stuck(p, ov, ots) ==
    [pushes |-> p, ovalue |-> ov, otimestamp |-> ots, emitted |-> <<>>]

\* the catch block around bridge_instance.push: the exception is logged and
\* `if (--self._pushes === 0) { self._clear_ostate(); }`
_push_catch(p, ov, ots) ==
    LET c == _clear_ostate(ov, NoneChanged, ots)
    IN  IF p - 1 = 0
        THEN [pushes |-> p - 1, ovalue |-> c.ovalue, otimestamp |-> c.otimestamp,
              emitted |-> c.emitted]
        ELSE [pushes |-> p - 1, ovalue |-> ov, otimestamp |-> ots, emitted |-> <<>>]

\* what the bridge does with a push handed to it: it keeps the callback for later
\* ("async"), throws before calling it ("throw"), or calls it before returning
BridgeOutcomes == {"async", "throw", "sync_ok", "sync_error"}

\* the nextTick callback of Model._push_attributes
Dispatch(outcome) ==
    /\ call' = NoCall
    /\ ticks # <<>>
    /\ Head(ticks).kind = "push"
    /\ ticks' = Tail(ticks)
    /\ op' = "dispatch"
    /\ IF ~bridge_instance
       THEN /\ res' = "dropped"
            /\ emitted' = <<>>
            /\ UNCHANGED <<ostateVars, pushes, inflight>>
       ELSE IF outcome = "async"
       THEN /\ res' = outcome
            /\ pushes' = pushes + 1
            /\ inflight' = inflight (+) SetToBag({Head(ticks).pushd})
            /\ emitted' = <<>>
            /\ UNCHANGED ostateVars
       ELSE LET d == IF outcome = "throw"
                     THEN _push_catch(pushes + 1, ovalue, otimestamp)
                     ELSE _push_callback(pushes + 1, ovalue, otimestamp)
            IN  /\ res' = outcome
                /\ pushes' = d.pushes
                /\ ovalue' = d.ovalue
                /\ otimestamp' = d.otimestamp
                /\ emitted' = d.emitted
                /\ UNCHANGED inflight
    /\ otimestamp' \in Stamps
    /\ UNCHANGED <<bridgeVars, istateVars, metaVars, connVars, callbacksd, now, band, arrayVars, pureVars>>

\* the bridge calls the callback of a push it kept; as an I/O callback it runs
\* only when the nextTick queue is empty
PushCallback(pushd, error) ==
    /\ call' = NoCall
    /\ BagIn(pushd, inflight)
    /\ ticks = <<>>
    /\ LET d == _push_callback(pushes, ovalue, otimestamp)
       IN  /\ pushes' = d.pushes
           /\ ovalue' = d.ovalue
           /\ otimestamp' = d.otimestamp
           /\ emitted' = d.emitted
    /\ inflight' = inflight (-) SetToBag({pushd})
    /\ op' = "push_callback"
    /\ res' = IF error THEN "error" ELSE "ok"
    /\ otimestamp' \in Stamps
    /\ UNCHANGED <<bridgeVars, istateVars, metaVars, connVars, ticks, callbacksd, now, band, arrayVars, pureVars>>

\* -------------------------------------------------------------- metadata
MetaKeys == {"name", "key"}
Absent == "absent"
\* the keys an incoming dictionary may carry: the metadata keys and iot:reachable
InKeys == MetaKeys \cup {"reachable"}
\* what Meta.state() holds before the local updates: the model's name
MetaBase == [name |-> "N0", key |-> Absent]

\* Meta.state()[key]: the local update when there is one, the base value otherwise
meta_state(key) ==
    IF meta_updated[key] # Absent THEN meta_updated[key] ELSE MetaBase[key]

\* _.timestamp.check.dictionary(stored, incoming): check.values on their "@timestamp"
check_dictionary(stored, incoming) == check_values(stored, incoming)

MetaParamds == [check_timestamp : BOOLEAN, set_timestamp : BOOLEAN, emit : BOOLEAN]

\* Meta.update that never looks at the timestamps
_meta_update_unchecked(ind, in_timestamp, paramd) ==
    LET changes(k) == ind[k] # Absent /\ ind[k] # meta_state(k)
        changed == \E k \in MetaKeys : changes(k)
    IN  IF FALSE
        THEN [updated |-> meta_updated, timestamp |-> meta_timestamp, tasks |-> <<>>,
              res |-> "rejected"]
        ELSE IF ~changed
        THEN [updated |-> meta_updated, timestamp |-> meta_timestamp, tasks |-> <<>>,
              res |-> "unchanged"]
        ELSE [updated   |-> [k \in MetaKeys |-> IF changes(k) THEN ind[k] ELSE meta_updated[k]],
              timestamp |-> IF paramd.set_timestamp
                            THEN (IF in_timestamp # NoTS THEN in_timestamp ELSE timestamp_make)
                            ELSE meta_timestamp,
              tasks     |-> IF paramd.emit THEN <<EmitTask("meta")>> ELSE <<>>,
              res       |-> "applied"]

\* Meta.update that lets an update without a timestamp through
_meta_update_lenient(ind, in_timestamp, paramd) ==
    LET changes(k) == ind[k] # Absent /\ ind[k] # meta_state(k)
        changed == \E k \in MetaKeys : changes(k)
    IN  IF paramd.check_timestamp /\ in_timestamp # NoTS
           /\ ~check_dictionary(meta_timestamp, in_timestamp)
        THEN [updated |-> meta_updated, timestamp |-> meta_timestamp, tasks |-> <<>>,
              res |-> "rejected"]
        ELSE IF ~changed
        THEN [updated |-> meta_updated, timestamp |-> meta_timestamp, tasks |-> <<>>,
              res |-> "unchanged"]
        ELSE [updated   |-> [k \in MetaKeys |-> IF changes(k) THEN ind[k] ELSE meta_updated[k]],
              timestamp |-> IF paramd.set_timestamp
                            THEN (IF in_timestamp # NoTS THEN in_timestamp ELSE timestamp_make)
                            ELSE meta_timestamp,
              tasks     |-> IF paramd.emit THEN <<EmitTask("meta")>> ELSE <<>>,
              res       |-> "applied"]

\* Meta.update that always stamps the current time
_meta_update_stamps_now(ind, in_timestamp, paramd) ==
    LET changes(k) == ind[k] # Absent /\ ind[k] # meta_state(k)
        changed == \E k \in MetaKeys : changes(k)
    IN  IF paramd.check_timestamp /\ ~check_dictionary(meta_timestamp, in_timestamp)
        THEN [updated |-> meta_updated, timestamp |-> meta_timestamp, tasks |-> <<>>,
              res |-> "rejected"]
        ELSE IF ~changed
        THEN [updated |-> meta_updated, timestamp |-> meta_timestamp, tasks |-> <<>>,
              res |-> "unchanged"]
        ELSE [updated   |-> [k \in MetaKeys |-> IF changes(k) THEN ind[k] ELSE meta_updated[k]],
              timestamp |-> IF paramd.set_timestamp
                            THEN timestamp_make
                            ELSE meta_timestamp,
              tasks     |-> IF paramd.emit THEN <<EmitTask("meta")>> ELSE <<>>,
              res       |-> "applied"]

\* Meta.update(ind, paramd), as the values it leaves and the callback it schedules
_meta_update(ind, in_timestamp, paramd) ==
    LET changes(k) == ind[k] # Absent /\ ind[k] # meta_state(k)
        changed == \E k \in MetaKeys : changes(k)
    IN  IF paramd.check_timestamp /\ ~check_dictionary(meta_timestamp, in_timestamp)
        THEN [updated |-> meta_updated, timestamp |-> meta_timestamp, tasks |-> <<>>,
              res |-> "rejected"]
        ELSE IF ~changed
        THEN [updated |-> meta_updated, timestamp |-> meta_timestamp, tasks |-> <<>>,
              res |-> "unchanged"]
        ELSE [updated   |-> [k \in MetaKeys |-> IF changes(k) THEN ind[k] ELSE meta_updated[k]],
              timestamp |-> IF paramd.set_timestamp
                            THEN (IF in_timestamp # NoTS THEN in_timestamp ELSE timestamp_make)
                            ELSE meta_timestamp,
              tasks     |-> IF paramd.emit THEN <<EmitTask("meta")>> ELSE <<>>,
              res       |-> "applied"]

\* Meta.update(ind, paramd), also reached through Model.update("meta", ind, paramd)
MetaUpdate(ind, in_timestamp, paramd) ==
    /\ band = "meta"
    /\ \E u \in {_meta_update(ind, in_timestamp, paramd)} :
        /\ meta_updated' = u.updated
        /\ meta_timestamp' = u.timestamp
        /\ ticks' = ticks \o u.tasks
        /\ res' = u.res
    /\ call' = [NoCall EXCEPT !.check_timestamp = paramd.check_timestamp,
                              !.set_timestamp = paramd.set_timestamp,
                              !.notify = paramd.emit,
                              !.ts = in_timestamp]
    /\ op' = "update_meta"
    /\ emitted' = <<>>
    /\ UNCHANGED <<bridgeVars, istateVars, ostateVars, connVars, pushes, inflight,
                   callbacksd, now, band, arrayVars, pureVars>>
    /\ WithinBounds

\* Meta.set(key, value)
MetaSet(key, value) ==
    /\ band = "meta"
    /\ call' = NoCall
    /\ op' = "meta_set"
    /\ emitted' = <<>>
    /\ IF key \notin MetaKeys
       THEN /\ res' = "ignored"
            /\ UNCHANGED <<metaVars, ticks>>
       ELSE /\ meta_timestamp' = timestamp_make
            /\ IF meta_updated[key] # value
               THEN /\ meta_updated' = [meta_updated EXCEPT ![key] = value]
                    /\ ticks' = Append(ticks, EmitTask("meta"))
                    /\ res' = "applied"
               ELSE /\ UNCHANGED <<meta_updated, ticks>>
                    /\ res' = "unchanged"
    /\ UNCHANGED <<bridgeVars, istateVars, ostateVars, connVars, pushes, inflight,
                   callbacksd, now, band, arrayVars, pureVars>>
    /\ WithinBounds

\* ---------------------------------------------------------------- bridge
\* _reachable_changed that records and tells of every report
_reachable_changed_always(is_reachable) ==
    [reachabled |-> is_reachable, ctimestamp |-> timestamp_make,
     emitted |-> <<"connection">>]

\* _reachable_changed of Model.bind_bridge
_reachable_changed(is_reachable) ==
    IF reachabled = is_reachable
    THEN [reachabled |-> reachabled, ctimestamp |-> ctimestamp, emitted |-> <<>>]
    ELSE [reachabled |-> is_reachable, ctimestamp |-> timestamp_make,
          emitted |-> <<"connection">>]

\* Model.bind_bridge(bridge_instance), the bridge answering is_reachable
BindBridge(is_reachable) ==
    LET r == _reachable_changed(IF is_reachable THEN "yes" ELSE "no")
    IN  /\ bridge_instance' = TRUE
        /\ reachable' = is_reachable
        /\ reachabled' = r.reachabled
        /\ ctimestamp' = r.ctimestamp
        /\ emitted' = r.emitted
        /\ ticks' = Append(ticks, EmitTask("meta"))
        /\ call' = NoCall
        /\ op' = "bind_bridge"
        /\ res' = ""
        /\ UNCHANGED <<istateVars, ostateVars, metaVars, pushes, inflight, callbacksd, now, band, arrayVars, pureVars>>
        /\ WithinBounds

\* Model.disconnect()
Disconnect ==
    /\ call' = NoCall
    /\ bridge_instance' = FALSE
    /\ op' = "disconnect"
    /\ res' = ""
    /\ emitted' = <<>>
    /\ UNCHANGED <<reachable, istateVars, ostateVars, metaVars, connVars, pushes, ticks,
                   inflight, callbacksd, now, band, arrayVars, pureVars>>

\* the bound bridge becomes reachable or unreachable and says so by calling
\* pulled() with nothing; as an I/O callback it runs when the nextTick queue is empty
ReachableChange ==
    /\ call' = NoCall
    /\ bridge_instance
    /\ ticks = <<>>
    /\ reachable' = ~reachable
    /\ LET r == _reachable_changed(IF reachable' THEN "yes" ELSE "no")
       IN  /\ reachabled' = r.reachabled
           /\ ctimestamp' = r.ctimestamp
           /\ emitted' = r.emitted
    /\ op' = "reachable_change"
    /\ res' = ""
    /\ UNCHANGED <<bridge_instance, istateVars, ostateVars, metaVars, pushes,
                   ticks, inflight, callbacksd, now, band, arrayVars, pureVars>>

\* the events of the BridgeWrapper that never tells of an absence
_wrapper_events_state_only(absent, is_reachable) ==
    IF ~absent THEN <<"wrapper.state">> ELSE <<>>

\* the events of a BridgeWrapper that tells of the disconnection first
_wrapper_events_disconnected_first(absent, is_reachable) ==
    IF ~absent THEN <<"wrapper.state">>
    ELSE IF is_reachable THEN <<"wrapper.meta">>
    ELSE <<"wrapper.disconnected", "wrapper.meta">>

\* what the BridgeWrapper emits once the Model's pulled has run
_wrapper_events(absent, is_reachable) ==
    IF ~absent THEN <<"wrapper.state">>
    ELSE IF is_reachable THEN <<"wrapper.meta">>
    ELSE <<"wrapper.meta", "wrapper.disconnected">>

\* what the bridge hands to pulled: nothing, or a dictionary of values
NoPulld == [absent |-> TRUE, pulld |-> NoUpdated, ts |-> NoTS]
\* a dictionary that carries ts as its "@timestamp" (NoTS: it carries none)
PulldAt(d, ts) == [absent |-> FALSE, pulld |-> d, ts |-> ts]
Pulld(d) == PulldAt(d, NoTS)

\* bridge_instance.pulled(stated) as wrapped by the BridgeWrapper, the bridge
\* answering is_reachable; as an I/O callback it runs when the nextTick queue is
\* empty.  A dictionary without "@timestamp" is stamped with the current time; it
\* carries no "@__validate".
Pulled(stated, is_reachable) ==
    /\ bridge_instance
    /\ ticks = <<>>
    /\ reachable' = is_reachable
    /\ LET r == _reachable_changed(IF is_reachable THEN "yes" ELSE "no")
           ts == IF stated.ts = NoTS THEN timestamp_make ELSE stated.ts
           u == _update_istate(stated.pulld, ts, IstateDefaults)
       IN  /\ reachabled' = r.reachabled
           /\ ctimestamp' = r.ctimestamp
           /\ emitted' = r.emitted \o _wrapper_events(stated.absent, is_reachable)
           /\ IF stated.absent
              THEN /\ UNCHANGED <<istateVars, ticks>>
                   /\ call' = NoCall
                   /\ res' = "absent"
              ELSE /\ ivalue' = u.ivalue
                   /\ itimestamp' = u.itimestamp
                   /\ ticks' = ticks \o u.tasks
                   /\ call' = CallOf(IstateDefaults, ts, stated.pulld)
                   /\ res' = u.res
    /\ op' = "pulled"
    /\ UNCHANGED <<bridge_instance, ostateVars, metaVars, pushes, inflight, callbacksd,
                   now, band, arrayVars, pureVars>>
    /\ WithinBounds

\* Driver.pulled(undefined) of a driver that has its thing: thing.meta_changed()
DriverPulled ==
    /\ ticks = <<>>
    /\ ticks' = Append(ticks, EmitTask("meta"))
    /\ call' = NoCall
    /\ op' = "driver_pulled"
    /\ res' = "absent"
    /\ emitted' = <<>>
    /\ UNCHANGED <<bridgeVars, istateVars, ostateVars, metaVars, connVars, pushes,
                   inflight, callbacksd, now, band, arrayVars, pureVars>>

\* time passes
Tock ==
    /\ call' = NoCall
    /\ now < MaxTime
    /\ now' = now + 1
    /\ op' = "tock"
    /\ res' = ""
    /\ emitted' = <<>>
    /\ UNCHANGED <<bridgeVars, istateVars, ostateVars, metaVars, connVars, pushes, ticks,
                   inflight, callbacksd, band, arrayVars, pureVars>>

\* ------------------------------------------------ bridge wrapper discovery
DiscoverTask == [kind |-> "discover", code |-> "", pushd |-> NoPush]

\* what the wrapper emits, and the calls it makes on a bridge, by name and bridge
Ev(name, bridge) == name \o ":" \o bridge

\* a discovered handler that announces the bridge before connecting it
discovered_announces_first(w, bridge) ==
    IF binding.has_matchd /\ ~d_contains_d(BridgeMeta[bridge], binding.matchd)
    THEN [wrapper |-> [w EXCEPT !.reports = @ + 1],
          log     |-> (IF binding.has_ignore THEN <<Ev("ignore", bridge)>> ELSE <<>>)
                      \o <<Ev("ignored", bridge)>>]
    ELSE [wrapper |-> [w EXCEPT !.reports = @ + 1,
                                !.models = Append(@, bridge),
                                !.connected = Append(@, bridge)],
          log     |-> <<Ev("model", bridge), Ev("bridge", bridge), Ev("connect", bridge)>>]

\* bridge_exemplar.discovered(bridge_instance): a bridge the binding does not match
\* is ignored; for any other a model is made and bound, "model" is emitted, pulled
\* is wrapped, the bridge is connected and "bridge" is emitted
discovered(w, bridge) ==
    IF binding.has_matchd /\ ~d_contains_d(BridgeMeta[bridge], binding.matchd)
    THEN [wrapper |-> [w EXCEPT !.reports = @ + 1],
          log     |-> (IF binding.has_ignore THEN <<Ev("ignore", bridge)>> ELSE <<>>)
                      \o <<Ev("ignored", bridge)>>]
    ELSE [wrapper |-> [w EXCEPT !.reports = @ + 1,
                                !.models = Append(@, bridge),
                                !.connected = Append(@, bridge)],
          log     |-> <<Ev("model", bridge), Ev("connect", bridge), Ev("bridge", bridge)>>]

\* discovered called for each of the bridges in turn
RECURSIVE discovered_each(_, _)
discovered_each(w, bridges) ==
    IF bridges = <<>> THEN [wrapper |-> w, log |-> <<>>]
    ELSE LET d == discovered(w, Head(bridges))
             r == discovered_each(d.wrapper, Tail(bridges))
         IN  [wrapper |-> r.wrapper, log |-> d.log \o r.log]

\* new BridgeWrapper(binding, initd): the handler is installed and discover is left
\* to the next tick
BridgeWrapper ==
    /\ ~wrapper.constructed
    /\ wrapper' = [wrapper EXCEPT !.constructed = TRUE]
    /\ ticks' = Append(ticks, DiscoverTask)
    /\ wlog' = <<>>
    /\ call' = NoCall
    /\ op' = "bridge_wrapper"
    /\ res' = ""
    /\ emitted' = <<>>
    /\ UNCHANGED <<bridgeVars, istateVars, ostateVars, metaVars, connVars, pushes,
                   inflight, callbacksd, now, band, arrayVars, findVars, convertVars,
                   binding>>

\* the nextTick callback of the constructor: bridge_exemplar.discover(discoverd),
\* the bridge reporting the bridges of `reports` before discover returns
Discover(reports) ==
    /\ ticks # <<>>
    /\ Head(ticks).kind = "discover"
    /\ ticks' = Tail(ticks)
    /\ LET r == discovered_each([wrapper EXCEPT !.discovering = TRUE], reports)
       IN  /\ wrapper' = r.wrapper
           /\ wlog' = r.log
    /\ wrapper'.reports <= MaxDiscovered
    /\ call' = NoCall
    /\ op' = "discover"
    /\ res' = ""
    /\ emitted' = <<>>
    /\ UNCHANGED <<bridgeVars, istateVars, ostateVars, metaVars, connVars, pushes,
                   inflight, callbacksd, now, band, arrayVars, findVars, convertVars,
                   binding>>

\* the discovery reports a bridge later; as an I/O callback it runs when the
\* nextTick queue is empty
Discovered(bridge) ==
    /\ wrapper.discovering
    /\ ticks = <<>>
    /\ LET r == discovered(wrapper, bridge)
       IN  /\ wrapper' = r.wrapper
           /\ wlog' = r.log
    /\ wrapper'.reports <= MaxDiscovered
    /\ call' = [NoCall EXCEPT !.key = bridge]
    /\ op' = "discovered"
    /\ res' = ""
    /\ emitted' = <<>>
    /\ UNCHANGED <<bridgeVars, istateVars, ostateVars, metaVars, connVars, pushes,
                   ticks, inflight, callbacksd, now, band, arrayVars, findVars,
                   convertVars, binding>>

\* ------------------------------------------------------------ thing arrays
\* Three Thing objects; t1 and t2 are two objects that answer one thing_id().
Things == {"t1", "t2", "t3"}
thing_id == [t \in Things |-> IF t = "t3" THEN "y" ELSE "x"]

\* Two constructed arrays A and B, V == A.with_zone("A"), W == V.with_tag("t")
\* and M == A.merge(B).
Arrays == {"A", "B", "V", "W", "M"}
BaseArrays == {"A", "B"}
FilterSource == [V |-> "A", W |-> "V"]
MergeSources == <<"A", "B">>
Zones == {"A", "B"}

KEY_TAG == "TAG"
KEY_SETTER == "SETTER"
KEY_NONE == "undefined"
PRE_KEYS == {KEY_TAG}
Commands == {"set", "update", "name", "tag", "disconnect"}
KeyOf(f) ==
    IF f = "tag" THEN KEY_TAG ELSE IF f \in {"set", "update"} THEN KEY_SETTER ELSE KEY_NONE

\* what one API call emitted and replayed, by array
NoLog ==
    [changed  |-> [a \in Arrays |-> 0],
     new      |-> [a \in Arrays |-> <<>>],
     pushed   |-> [a \in Arrays |-> <<>>],
     replayed |-> [a \in Arrays |-> <<>>],
     applied  |-> [a \in Arrays |-> <<>>],
     dropped  |-> [a \in Arrays |-> <<>>],
     called   |-> [a \in Arrays |-> <<>>]]

\* the objects a call works on: the arrays' elements, the Things' tags and the log
World == [members |-> members, tag |-> thing_tag, bridge |-> thing_bridge, log |-> NoLog]

Has(seq, x) == \E i \in 1..Len(seq) : seq[i] = x
SetOf(seq) == {seq[i] : i \in 1..Len(seq)}
IdsOf(seq) == {thing_id[seq[i]] : i \in 1..Len(seq)}

_filter_test(w, view, thing) ==
    IF view = "V" THEN thing_zone[thing] = "A" ELSE w.tag[thing]

\* the listeners of EVENT_THINGS_CHANGED on src, in the order V, W, M were made
ChangedListeners(src) ==
    LET filters == IF is_persist[src]
                   THEN SelectSeq(<<"V", "W">>,
                                  LAMBDA v : v \in made /\ FilterSource[v] = src)
                   ELSE <<>>
        merges == IF "M" \in made /\ src \in BaseArrays /\ is_persist[src]
                  THEN <<"M">> ELSE <<>>
    IN  filters \o merges

\* the listeners of EVENT_THING_PUSHED on src
PushedListeners(src) ==
    IF is_persist[src]
    THEN SelectSeq(<<"V", "W">>, LAMBDA v : v \in made /\ FilterSource[v] = src)
    ELSE <<>>

_persist_pre(w, arr, thing) ==
    LET pds == SelectSeq(_persistds[arr], LAMBDA pd : pd.key \in PRE_KEYS)
    IN  [w EXCEPT !.log.replayed[arr] = @ \o [i \in 1..Len(pds) |-> <<thing, pds[i].f>>],
                  !.tag[thing] = @ \/ Len(pds) > 0]

\* a _persist_post that does not leave out the commands _persist_pre replays
_persist_post_all(w, arr, thing) ==
    [w EXCEPT !.log.replayed[arr] =
                  @ \o [i \in 1..Len(_persistds[arr]) |-> <<thing, _persistds[arr][i].f>>],
              !.bridge[thing] =
                  @ /\ \A i \in 1..Len(_persistds[arr]) : _persistds[arr][i].f # "disconnect"]

_persist_post(w, arr, thing) ==
    LET pds == SelectSeq(_persistds[arr], LAMBDA pd : pd.key \notin PRE_KEYS)
    IN  [w EXCEPT !.log.replayed[arr] = @ \o [i \in 1..Len(pds) |-> <<thing, pds[i].f>>],
                  !.bridge[thing] = @ /\ \A i \in 1..Len(pds) : pds[i].f # "disconnect"]

\* self.emit(EVENT_THING_NEW, thing): the callbacks on("thing") registered, in turn
emit_new_thing(w, arr, thing) ==
    [w EXCEPT !.log.new[arr] = Append(@, thing),
              !.log.called[arr] = @ \o [k \in 1..on_thing[arr] |-> <<k, thing>>]]

RECURSIVE things_changed(_, _)
RECURSIVE push(_, _, _, _, _)
RECURSIVE filter_scan(_, _, _, _, _)
RECURSIVE _merger_scan(_, _, _, _)
RECURSIVE RunChanged(_, _, _)
RECURSIVE RunPushed(_, _, _)

\* a push that does not look for the Thing among the elements
push_unchecked(w, arr, thing, emit_pushed, emit_new) ==
    LET w1 == _persist_pre(w, arr, thing)
        w2 == [w1 EXCEPT !.members[arr] = Append(@, thing)]
        w3 == IF emit_pushed
              THEN RunPushed([w2 EXCEPT !.log.pushed[arr] = Append(@, thing)],
                             arr, PushedListeners(arr))
              ELSE w2
        w4 == IF emit_new THEN emit_new_thing(w3, arr, thing) ELSE w3
        w5 == IF emit_pushed \/ emit_new THEN things_changed(w4, arr) ELSE w4
    IN  _persist_post(w5, arr, thing)

push(w, arr, thing, emit_pushed, emit_new) ==
    IF \E ti \in 1..Len(w.members[arr]) : w.members[arr][ti] = thing
    THEN w
    ELSE LET w1 == _persist_pre(w, arr, thing)
             w2 == [w1 EXCEPT !.members[arr] = Append(@, thing)]
             w3 == IF emit_pushed
                   THEN RunPushed([w2 EXCEPT !.log.pushed[arr] = Append(@, thing)],
                                  arr, PushedListeners(arr))
                   ELSE w2
             w4 == IF emit_new THEN emit_new_thing(w3, arr, thing) ELSE w3
             w5 == IF emit_pushed \/ emit_new THEN things_changed(w4, arr) ELSE w4
         IN  _persist_post(w5, arr, thing)

\* the loop "find new things matching" of the handler filter() registers
filter_scan(w, src, view, ii, oidd) ==
    IF ii > Len(w.members[src]) THEN [w |-> w, oidd |-> oidd]
    ELSE LET thing == w.members[src][ii]
         IN  IF ~_filter_test(w, view, thing)
             THEN filter_scan(w, src, view, ii + 1, oidd)
             ELSE IF thing_id[thing] \in oidd
                  THEN filter_scan(w, src, view, ii + 1, oidd \ {thing_id[thing]})
                  ELSE filter_scan(push(w, view, thing, FALSE, TRUE), src, view, ii + 1, oidd)

\* a handler that empties the view and pushes every matching element anew
filter_on_things_changed_rebuild(w, src, view) ==
    things_changed(filter_scan([w EXCEPT !.members[view] = <<>>], src, view, 1, {}).w, view)

\* a handler that notifies downstream only when it changed the view
filter_on_things_changed_quiet(w, src, view) ==
    LET scanned == filter_scan(w, src, view, 1, IdsOf(w.members[view]))
        kept == SelectSeq(scanned.w.members[view], LAMBDA o : thing_id[o] \notin scanned.oidd)
    IN  IF kept = w.members[view] THEN scanned.w
        ELSE things_changed([scanned.w EXCEPT !.members[view] = kept], view)

\* the EVENT_THINGS_CHANGED handler filter() registers on its source
filter_on_things_changed(w, src, view) ==
    LET scanned == filter_scan(w, src, view, 1, IdsOf(w.members[view]))
        kept == SelectSeq(scanned.w.members[view], LAMBDA o : thing_id[o] \notin scanned.oidd)
    IN  things_changed([scanned.w EXCEPT !.members[view] = kept], view)

\* the loop "new things, from any of the srcs" of _merger, over src[ii..] 
_merger_scan(w, src, ii, oidd) ==
    IF ii > Len(w.members[src]) THEN [w |-> w, oidd |-> oidd]
    ELSE LET thing == w.members[src][ii]
         IN  IF thing_id[thing] \in oidd
             THEN _merger_scan(w, src, ii + 1, oidd \ {thing_id[thing]})
             ELSE _merger_scan(push(w, "M", thing, FALSE, TRUE), src, ii + 1, oidd)

\* a _merger without the loop "remove things that no longer match"
_merger_keeps(w) ==
    LET first == _merger_scan(w, MergeSources[1], 1, IdsOf(w.members["M"]))
        second == _merger_scan(first.w, MergeSources[2], 1, first.oidd)
    IN  things_changed(second.w, "M")

_merger(w) ==
    LET first == _merger_scan(w, MergeSources[1], 1, IdsOf(w.members["M"]))
        second == _merger_scan(first.w, MergeSources[2], 1, first.oidd)
        kept == SelectSeq(second.w.members["M"], LAMBDA o : thing_id[o] \notin second.oidd)
    IN  things_changed([second.w EXCEPT !.members["M"] = kept], "M")

RunChanged(w, src, ls) ==
    IF ls = <<>> THEN w
    ELSE RunChanged(IF Head(ls) = "M" THEN _merger(w)
                    ELSE filter_on_things_changed(w, src, Head(ls)),
                    src, Tail(ls))

\* each EVENT_THING_PUSHED listener calls self.things_changed()
RunPushed(w, src, ls) ==
    IF ls = <<>> THEN w
    ELSE RunPushed(things_changed(w, src), src, Tail(ls))

things_changed(w, arr) ==
    RunChanged([w EXCEPT !.log.changed[arr] = @ + 1], arr, ChangedListeners(arr))

\* ----------------------------------------------------- thing array calls
NoArrayCall == [op |-> "none", arr |-> "A", thing |-> "t1", res |-> "none"]

Commit(w) ==
    /\ members' = w.members
    /\ thing_tag' = w.tag
    /\ thing_bridge' = w.bridge
    /\ alog' = w.log

\* array.push(thing)
ArrayPush(arr, thing) ==
    /\ arr \in BaseArrays \cup made
    /\ Commit(push(World, arr, thing, TRUE, TRUE))
    /\ acall' = [op |-> "push", arr |-> arr, thing |-> thing,
                 res |-> IF Has(members[arr], thing) THEN "undefined" ELSE "self"]
    /\ UNCHANGED <<thing_zone, _persistds, is_persist, made, derive, on_thing, thingVars, pureVars>>

\* array.things_changed()
ArrayThingsChanged(arr) ==
    /\ arr \in BaseArrays \cup made
    /\ Commit(things_changed(World, arr))
    /\ acall' = [op |-> "things_changed", arr |-> arr, thing |-> "t1", res |-> "undefined"]
    /\ UNCHANGED <<thing_zone, _persistds, is_persist, made, derive, on_thing, thingVars, pureVars>>

\* array.splice(index, 1), index counted from 1 here
ArraySplice(arr, index) ==
    /\ arr \in BaseArrays \cup made
    /\ index \in 1..Len(members[arr])
    /\ members' = [members EXCEPT ![arr] =
                       SubSeq(@, 1, index - 1) \o SubSeq(@, index + 1, Len(@))]
    /\ alog' = NoLog
    /\ acall' = [op |-> "splice", arr |-> arr, thing |-> members[arr][index], res |-> "self"]
    /\ UNCHANGED <<thing_tag, thing_zone, _persistds, is_persist, made, derive, on_thing, thing_bridge, thingVars, pureVars>>

\* thing.meta().set("iot:zone", zone): no array listens to a Thing's metadata
ThingZone(thing, zone) ==
    /\ thing_zone[thing] # zone
    /\ thing_zone' = [thing_zone EXCEPT ![thing] = zone]
    /\ alog' = NoLog
    /\ acall' = [op |-> "zone", arr |-> "A", thing |-> thing, res |-> "undefined"]
    /\ UNCHANGED <<members, thing_tag, _persistds, is_persist, made, derive, on_thing, thing_bridge, thingVars, pureVars>>

\* thing.disconnect()
ThingDisconnect(thing) ==
    /\ thing_bridge' = [thing_bridge EXCEPT ![thing] = FALSE]
    /\ alog' = NoLog
    /\ acall' = [op |-> "disconnect", arr |-> "none", thing |-> thing, res |-> "wait"]
    /\ UNCHANGED <<members, thing_tag, thing_zone, _persistds, is_persist, made, derive,
                   on_thing, thingVars, pureVars>>

\* thing.tag("t")
ThingTag(thing) ==
    /\ ~thing_tag[thing]
    /\ thing_tag' = [thing_tag EXCEPT ![thing] = TRUE]
    /\ alog' = NoLog
    /\ acall' = [op |-> "tag", arr |-> "A", thing |-> thing, res |-> "self"]
    /\ UNCHANGED <<members, thing_zone, _persistds, is_persist, made, derive, on_thing, thing_bridge, thingVars, pureVars>>

RECURSIVE filter_map(_, _, _, _)
\* self.map(...) of filter(): out_items.push(thing) for the matching elements
filter_map(w, src, view, ti) ==
    IF ti > Len(w.members[src]) THEN w
    ELSE filter_map(IF _filter_test(w, view, w.members[src][ti])
                    THEN push(w, view, w.members[src][ti], TRUE, TRUE)
                    ELSE w,
                    src, view, ti + 1)

\* view = source.filter(d): V = A.with_zone("A"), W = V.with_tag("t")
ArrayFilter(view) ==
    /\ view \in DOMAIN FilterSource
    /\ view \notin made
    /\ FilterSource[view] \in BaseArrays \cup made
    /\ Commit(filter_map(World, FilterSource[view], view, 1))
    /\ is_persist' = [is_persist EXCEPT ![view] = is_persist[FilterSource[view]]]
    /\ made' = made \cup {view}
    /\ acall' = [op |-> "filter", arr |-> view, thing |-> "t1", res |-> "out_items"]
    /\ UNCHANGED <<thing_zone, _persistds, derive, on_thing, thingVars, pureVars>>

\* M = A.merge(B)
ArrayMerge ==
    /\ "M" \notin made
    /\ Commit(_merger(World))
    /\ is_persist' = [is_persist EXCEPT !["M"] = TRUE]
    /\ made' = made \cup {"M"}
    /\ acall' = [op |-> "merge", arr |-> "M", thing |-> "t1", res |-> "out_items"]
    /\ UNCHANGED <<thing_zone, _persistds, derive, on_thing, thingVars, pureVars>>

\* a _persist_command that keeps the earlier setters
_persist_command_append(pds, f) == Append(pds, [f |-> f, key |-> KeyOf(f)])

_persist_command(pds, f) ==
    Append(IF KeyOf(f) = KEY_SETTER
           THEN SelectSeq(pds, LAMBDA pd : pd.key # KEY_SETTER)
           ELSE pds,
           [f |-> f, key |-> KeyOf(f)])

\* array.set(...), array.update(...), array.name(...), array.disconnect()
ArrayCommand(arr, f) ==
    /\ arr \in BaseArrays \cup made
    /\ f \in Commands \ {"tag"}
    /\ Len(_persistds[arr]) < MaxCommands
    /\ alog' = [NoLog EXCEPT
                    !.applied[arr] = [i \in 1..Len(members[arr]) |-> <<members[arr][i], f>>],
                    !.dropped[arr] = IF is_persist[arr] /\ KeyOf(f) = KEY_SETTER
                                     THEN SelectSeq(_persistds[arr],
                                                    LAMBDA pd : pd.key = KEY_SETTER)
                                     ELSE <<>>]
    /\ _persistds' = [_persistds EXCEPT ![arr] =
                          IF is_persist[arr] THEN _persist_command(@, f) ELSE @]
    /\ acall' = [op |-> f, arr |-> arr, thing |-> "t1", res |-> "self"]
    /\ thing_bridge' = [t \in Things |->
                            thing_bridge[t] /\ ~(f = "disconnect" /\ Has(members[arr], t))]
    /\ UNCHANGED <<members, thing_tag, thing_zone, is_persist, made, derive, on_thing, thingVars, pureVars>>

\* array.tag("t"): the map over the elements hands each Thing to its own tag()
\* as the tag, which _validate_tag refuses
ArrayTag(arr) ==
    /\ arr \in BaseArrays \cup made
    /\ Len(_persistds[arr]) < MaxCommands
    /\ alog' = NoLog
    /\ IF members[arr] # <<>>
       THEN /\ acall' = [op |-> "tag", arr |-> arr, thing |-> members[arr][1], res |-> "throw"]
            /\ UNCHANGED _persistds
       ELSE /\ acall' = [op |-> "tag", arr |-> arr, thing |-> "t1", res |-> "self"]
            /\ _persistds' = [_persistds EXCEPT ![arr] =
                                  IF is_persist[arr] THEN _persist_command(@, "tag") ELSE @]
    /\ UNCHANGED <<members, thing_tag, thing_zone, is_persist, made, derive, on_thing, thing_bridge, thingVars, pureVars>>

\* an _on_thing that registers the listener without the map over the elements
_on_thing_listen_only(w, arr) == w

\* self.map(callback) of _on_thing, callback being registration on_thing[arr] + 1
_on_thing(w, arr) ==
    [w EXCEPT !.log.called[arr] =
         @ \o [i \in 1..Len(w.members[arr]) |-> <<on_thing[arr] + 1, w.members[arr][i]>>]]

\* array.on("thing", callback)
ArrayOnThing(arr) ==
    /\ arr \in BaseArrays \cup made
    /\ on_thing[arr] < MaxCallbacks
    /\ Commit(_on_thing(World, arr))
    /\ on_thing' = [on_thing EXCEPT ![arr] = @ + 1]
    /\ acall' = [op |-> "on_thing", arr |-> arr, thing |-> "t1", res |-> "self"]
    /\ UNCHANGED <<thing_zone, _persistds, is_persist, made, derive, thingVars, pureVars>>

\* no ThingArray in use
ArrayIdle ==
    /\ members = [a \in Arrays |-> <<>>]
    /\ thing_tag = [t \in Things |-> FALSE]
    /\ thing_zone = [t \in Things |-> "A"]
    /\ _persistds = [a \in Arrays |-> <<>>]
    /\ is_persist = [a \in Arrays |-> FALSE]
    /\ made = {}
    /\ alog = NoLog
    /\ acall = NoArrayCall
    /\ derive = "filter"
    /\ on_thing = [a \in Arrays |-> 0]
    /\ thing_bridge = [t \in Things |-> TRUE]

\* ------------------------------------------------------------- behaviours

\* the Thing as ModelMaker.make leaves it: no bridge, no values, no timestamps
ThingIdle ==
    /\ bridge_instance = FALSE
    /\ reachable = FALSE
    /\ ivalue = [a \in Attrs |-> Null]
    /\ ovalue = [a \in Attrs |-> Null]
    /\ itimestamp = NoTS
    /\ otimestamp = NoTS
    /\ pushes = 0
    /\ ticks = <<>>
    /\ inflight = EmptyBag
    /\ callbacksd = [a \in Attrs |-> 0]
    /\ meta_updated = [k \in MetaKeys |-> Absent]
    /\ meta_timestamp = NoTS
    /\ reachabled = "undefined"
    /\ ctimestamp = NoTS
    /\ now = 1
    /\ band = "ostate"
    /\ call = NoCall
    /\ op = "init"
    /\ res = ""
    /\ emitted = <<>>

Init == ThingIdle /\ ArrayIdle /\ PureIdle

\* the (find_key, new_value) pairs tried with set
SetInputs == ({"level"} \X RawValues) \cup {<<"ev", 7>>, <<"nope", 1>>}

\* the update dictionaries that carry both attributes at once
BatchUpdateds == {u \in Updateds : u.level # Undefined /\ u.ev # Undefined /\ u.nope = Undefined}

\* the push engine: set and output-band updates against a bridge that comes and goes
\* the calls of Spec leave one place of the nextTick queue free
Spare == Len(ticks') < MaxTicks

Next ==
    \/ \E kv \in SetInputs : Set(kv[1], kv[2]) /\ Spare
    \/ \E updated \in BatchUpdateds, notify \in BOOLEAN :
           UpdateOstate(updated, NoTS, [OstateDefaults EXCEPT !.notify = notify]) /\ Spare
    \/ TickEmit
    \/ \E outcome \in BridgeOutcomes : Dispatch(outcome)
    \/ \E pushd \in BagToSet(inflight), error \in BOOLEAN : PushCallback(pushd, error)
    \/ \E is_reachable \in BOOLEAN : BindBridge(is_reachable) /\ Spare
    \/ Disconnect
    \/ ReachableChange

Spec == Init /\ [][Next]_vars

\* the behaviours in which several updates are made before their pushes are
\* dispatched: the calls fill the nextTick queue and the bridge answers a push
\* later, by throwing, or before it returns
PushOutcomes == {"async", "throw", "sync_ok"}
NextPushes ==
    \/ \E kv \in ({"level"} \X {1, 7}) \cup {<<"ev", 7>>} : Set(kv[1], kv[2])
    \/ \E updated \in BatchUpdateds :
           UpdateOstate(updated, NoTS, [OstateDefaults EXCEPT !.notify = FALSE])
    \/ TickEmit
    \/ \E outcome \in PushOutcomes : Dispatch(outcome)
    \/ \E pushd \in BagToSet(inflight) : PushCallback(pushd, FALSE)
    \/ BindBridge(TRUE)
    \/ Disconnect
    \/ ReachableChange

SpecPushes == Init /\ [][NextPushes]_vars

\* ------------------------------------------------- band updates with options
\* the update dictionaries tried on the input band: one attribute, two attributes,
\* an unknown code alone, and a malformed value next to a good one and an unknown code
IstateUpdateds ==
    {[level |-> 1, ev |-> Undefined, nope |-> Undefined],
     [level |-> 1, ev |-> 7, nope |-> Undefined],
     [level |-> Undefined, ev |-> Undefined, nope |-> 1],
     [level |-> NotANumber, ev |-> 7, nope |-> 1]}

\* the update dictionaries tried on the output band: a value in range, a value
\* above the maximum, two attributes, and a malformed value next to a good one
OstateUpdateds ==
    {[level |-> 1, ev |-> Undefined, nope |-> Undefined],
     [level |-> 7, ev |-> Undefined, nope |-> Undefined],
     [level |-> 1, ev |-> 7, nope |-> Undefined],
     [level |-> NotANumber, ev |-> 7, nope |-> 1]}

\* the options tried on the output band: validate stays at its default, notify is
\* switched off with the other options at their defaults, and add_timestamp is
\* switched off only where it is read, on an update with no timestamp
OstateParamds ==
    {p \in Paramds :
        p.validate /\ (~p.notify => p.add_timestamp /\ p.check_timestamp /\ p.set_timestamp)}
OstateCalls ==
    {c \in (0..MaxTime) \X OstateParamds : c[1] # NoTS => c[2].add_timestamp}

\* the options tried on the input band: validate is switched on with the other
\* options at their defaults
IstateParamds ==
    {p \in Paramds :
        ~p.add_timestamp /\ (p.validate => p.check_timestamp /\ p.set_timestamp /\ p.notify)}

\* the incoming metadata dictionaries tried
MetaInds ==
    {[name |-> "A", key |-> Absent, reachable |-> Absent],
     [name |-> "B", key |-> Absent, reachable |-> Absent],
     [name |-> "A", key |-> "A", reachable |-> Absent],
     [name |-> Absent, key |-> Absent, reachable |-> "A"]}

\* the Thing once Model.bind_bridge has run and its "meta" event is delivered, or
\* never bound
InitBands ==
    /\ band \in {"istate", "ostate", "meta"}
    /\ bridge_instance \in {b \in BOOLEAN : b => band = "ostate"}
    /\ reachable \in {r \in BOOLEAN : r => bridge_instance}
    /\ ivalue = [a \in Attrs |-> Null]
    /\ ovalue = [a \in Attrs |-> Null]
    /\ itimestamp = NoTS
    /\ otimestamp = NoTS
    /\ pushes = 0
    /\ ticks = <<>>
    /\ inflight = EmptyBag
    /\ callbacksd = [a \in Attrs |-> 0]
    /\ meta_updated = [k \in MetaKeys |-> Absent]
    /\ meta_timestamp = NoTS
    /\ reachabled = IF ~bridge_instance THEN "undefined" ELSE IF reachable THEN "yes" ELSE "no"
    /\ ctimestamp = IF bridge_instance THEN 1 ELSE NoTS
    /\ now = 1
    /\ call = NoCall
    /\ op = "init"
    /\ res = ""
    /\ emitted = <<>>
    /\ ArrayIdle
    /\ PureIdle

\* update calls with every option, each made in a turn of its own (the nextTick
\* queue is empty when the call is made)
NextBands ==
    \/ \E updated \in IstateUpdateds, ts_in \in 0..MaxTime, paramd \in IstateParamds :
           ticks = <<>> /\ UpdateIstate(updated, ts_in, paramd)
    \/ \E updated \in OstateUpdateds, c \in OstateCalls :
           ticks = <<>> /\ UpdateOstate(updated, c[1], c[2])
    \/ \E code \in {"level", "nope"} : band = "istate" /\ On(code)
    \/ TickEmit
    \/ TickCallback
    \/ \E outcome \in {"async", "throw"} : Dispatch(outcome)
    \/ \E pushd \in BagToSet(inflight) : PushCallback(pushd, FALSE)
    \/ \E ind \in MetaInds, in_timestamp \in 0..MaxTime, paramd \in MetaParamds :
           MetaUpdate(ind, in_timestamp, paramd)
    \/ \E key \in InKeys, value \in {"A", "B"} : MetaSet(key, value)
    \/ band = "meta" /\ ticks = <<>> /\ Tock

SpecBands == InitBands /\ [][NextBands]_vars

\* --------------------------------------------------- thing array behaviours
\* A and B as their constructors leave them, persisting or not; no view yet.
\* A behaviour derives the filters V and W and changes what they match, or
\* derives the merge M of A and B, or derives V and issues commands on it,
\* or derives V and disconnects Things.
InitArrays ==
    /\ ThingIdle
    /\ members = [a \in Arrays |-> <<>>]
    /\ thing_tag = [t \in Things |-> FALSE]
    /\ thing_zone = [t \in Things |-> "A"]
    /\ _persistds = [a \in Arrays |-> <<>>]
    /\ derive \in {"filter", "merge", "replay", "disconnect"}
    /\ is_persist \in {p \in [Arrays -> BOOLEAN] :
                         /\ \A a \in Arrays \ BaseArrays : ~p[a]
                         /\ derive # "merge" => ~p["B"]}
    /\ made = {}
    /\ alog = NoLog
    /\ acall = NoArrayCall
    /\ on_thing = [a \in Arrays |-> 0]
    /\ thing_bridge = [t \in Things |-> TRUE]
    /\ PureIdle

NextArrays ==
    \/ \E thing \in Things : ArrayPush("A", thing)
    \/ \E thing \in {"t2", "t3"} : derive = "merge" /\ ArrayPush("B", thing)
    \/ \E thing \in {"t2", "t3"} : derive = "replay" /\ ArrayPush("V", thing)
    \/ \E arr \in BaseArrays : (arr = "B" => derive = "merge") /\ ArrayThingsChanged(arr)
    \/ \E arr \in BaseArrays, index \in 1..2 :
           /\ derive \notin {"replay", "disconnect"}
           /\ arr = "B" => derive = "merge"
           /\ ArraySplice(arr, index)
    \/ \E thing \in {"t1", "t3"}, zone \in Zones : derive = "filter" /\ ThingZone(thing, zone)
    \/ derive = "filter" /\ ThingTag("t3")
    \/ \E view \in DOMAIN FilterSource :
           /\ derive \in {"filter", "replay", "disconnect"}
           /\ view = "W" => derive = "filter"
           /\ ArrayFilter(view)
    \/ derive = "merge" /\ ArrayMerge
    \/ \E f \in {"set", "update", "name"} : derive = "replay" /\ ArrayCommand("V", f)
    \/ derive = "replay" /\ ArrayTag("V")
    \/ derive = "replay" /\ ArrayOnThing("V")
    \/ derive = "disconnect" /\ ArrayCommand("A", "disconnect")
    \/ \E thing \in {"t1", "t3"} : derive = "disconnect" /\ ThingDisconnect(thing)

SpecArrays == InitArrays /\ [][NextArrays]_vars

\* ---------------------------------------------------------- key behaviours
\* the keys tried with set, get and on: an attribute code, an unknown code, a
\* purpose string and a dictionary no attribute carries, and a number
Keys == {"level", "nope", DimKey, DictDimKey, NumberKey}

\* set, get and on are called with every kind of key on a Thing that is bound to a
\* bridge or not, while its pushes go out
NextKeys ==
    \/ \E key \in Keys : Set(key, 1)
    \/ \E key \in Keys : Get(key)
    \/ \E key \in Keys : On(key)
    \/ TickEmit
    \/ Dispatch("async")
    \/ \E pushd \in BagToSet(inflight) : PushCallback(pushd, FALSE)
    \/ BindBridge(TRUE)

SpecKeys == Init /\ [][NextKeys]_vars

\* ------------------------------------------------------- pulled behaviours
\* the dictionaries the bridge reports
Pullds == {[level |-> 1, ev |-> Undefined, nope |-> Undefined],
           [level |-> 7, ev |-> 7, nope |-> 1]}

\* the bridge reports values and absences while the Thing is set and pushes
NextPulled ==
    \/ \E is_reachable \in BOOLEAN : BindBridge(is_reachable)
    \/ \E d \in Pullds, is_reachable \in BOOLEAN : Pulled(Pulld(d), is_reachable)
    \/ \E is_reachable \in BOOLEAN : Pulled(NoPulld, is_reachable)
    \/ DriverPulled
    \/ Set("level", 1)
    \/ On("level")
    \/ TickEmit
    \/ TickCallback
    \/ Dispatch("async")
    \/ \E pushd \in BagToSet(inflight) : PushCallback(pushd, FALSE)
    \/ Tock

SpecPulled == Init /\ [][NextPulled]_vars

\* ------------------------------------------------------- istate behaviours
\* the input band is updated with the default options, by update("istate") and by
\* the reports of the bridge, whose timestamps are older, equal, newer or missing
InitIstate == InitBands /\ band = "istate"

IstateReports == {[level |-> 1, ev |-> Undefined, nope |-> Undefined],
                  [level |-> 7, ev |-> 7, nope |-> Undefined]}

NextIstate ==
    \/ \E updated \in IstateReports, ts_in \in 0..MaxTime :
           UpdateIstate(updated, ts_in, IstateDefaults)
    \/ \E d \in IstateReports, ts \in 0..MaxTime, is_reachable \in BOOLEAN :
           Pulled(PulldAt(d, ts), is_reachable)
    \/ \E is_reachable \in BOOLEAN : Pulled(NoPulld, is_reachable)
    \/ \E is_reachable \in BOOLEAN : BindBridge(is_reachable)
    \/ TickEmit
    \/ Tock

SpecIstate == InitIstate /\ [][NextIstate]_vars

\* ------------------------------------------------------ wrapper behaviours
\* a BridgeWrapper is made for any binding; its discovery reports bridges while
\* discover runs and afterwards
InitWrapper ==
    /\ ThingIdle
    /\ ArrayIdle
    /\ FindIdle
    /\ ConvertIdle
    /\ binding \in Bindings
    /\ wrapper = NotConstructed
    /\ wlog = <<>>

SyncReports == {<<>>} \cup {<<x>> : x \in Bridges} \cup {<<x, y>> : x, y \in Bridges}

NextWrapper ==
    \/ BridgeWrapper
    \/ \E reports \in SyncReports : Discover(reports)
    \/ \E bridge \in Bridges : Discovered(bridge)

SpecWrapper == InitWrapper /\ [][NextWrapper]_vars

\* --------------------------------------------------------- find behaviours
\* find is called once on a Thing of any declared attributes
InitFind ==
    /\ ThingIdle
    /\ ArrayIdle
    /\ __attributes \in AttributeLists
    /\ find_key \in FindKeys
    /\ mode \in Modes
    /\ match = NoMatch
    /\ ConvertIdle
    /\ WrapperIdle

NextFind == Find

SpecFind == InitFind /\ [][NextFind]_vars

\* --------------------------------------------------- validation behaviours
\* a raw value is converted and validated by an Attribute of any types and bounds
InitValidate ==
    /\ ThingIdle
    /\ ArrayIdle
    /\ FindIdle
    /\ WrapperIdle
    /\ attribute \in Attributes
    /\ raw \in ScalarValues
    /\ converted = NotCalled
    /\ validated = NotCalled

NextValidate ==
    \/ Convert
    \/ Validate

SpecValidate == InitValidate /\ [][NextValidate]_vars

\* ------------------------------------------------------------ properties
OstateEmpty(ov) == \A a \in Attrs : ov[a] = Null
\* a push carrying attribute a has been handed to the bridge and not completed
Outstanding(a) == \E p \in BagToSet(inflight) : p[a] # Undefined

C2_Transient ==
    (CountPushes(ticks) = 0 /\ inflight = EmptyBag) => OstateEmpty(ovalue)

C5_Original ==
    /\ [][\A a \in Attrs :
            (/\ op' = "set" /\ Outstanding(a) /\ bridge_instance /\ reachable
             /\ ovalue'[a] # ovalue[a]) =>
                (pushes' = pushes /\ ovalue'[a] # Null)]_vars
    /\ [][\A a \in Attrs :
            (/\ op' = "dispatch" /\ res' = "async" /\ Outstanding(a)
             /\ Head(ticks).pushd[a] # Undefined) =>
                pushes' = pushes]_vars

\* C5 amended: while a push for an attribute is outstanding and the bridge is
\* bound and reachable, a further set of that attribute with a different value
\* overwrites the output value and leaves the counter alone at the call, but it
\* schedules a push of its own: the tick that hands that push to the bridge adds
\* one to the counter and its completion takes one off.
C5_OverwriteSchedulesPush ==
    /\ [][\A a \in Attrs :
            (/\ op' = "set" /\ Outstanding(a) /\ bridge_instance /\ reachable
             /\ ovalue'[a] # ovalue[a]) =>
                /\ pushes' = pushes
                /\ ovalue'[a] # Null
                /\ CountPushes(ticks') = CountPushes(ticks) + 1
                /\ \E i \in 1..Len(ticks') :
                      ticks'[i] = PushTask([NoPush EXCEPT ![a] = ovalue'[a]])]_vars
    /\ [][(op' = "dispatch" /\ res' = "async") => pushes' = pushes + 1]_vars
    /\ [][op' = "push_callback" => pushes' = pushes - 1]_vars

\* a second push of "level", with another value, was handed to the bridge while
\* the first was outstanding
C5_Witness ==
    /\ op = "dispatch"
    /\ res = "async"
    /\ pushes = 2
    /\ \E p, q \in BagToSet(inflight) :
          p.level # Undefined /\ q.level # Undefined /\ p.level # q.level

\* C10: no listener and no per-attribute callback runs inside an update or set
\* call, whether the bridge is bound and reachable, unreachable, or not bound:
\* every notification of the call is delivered after it returned.
C10_NothingSynchronous ==
    op \in {"set", "update_ostate", "update_istate"} => emitted = <<>>

\* the current time, unless the update carries a timestamp
StampOf(c) == IF c.ts # NoTS THEN c.ts ELSE now
\* the timestamp comparison of a checked update, as the table of its four cases
Wins(stored, incoming) ==
    \/ stored = NoTS /\ incoming = NoTS
    \/ stored = NoTS /\ incoming # NoTS
    \/ stored # NoTS /\ incoming # NoTS /\ incoming >= stored
Loses(stored, incoming) ==
    \/ stored # NoTS /\ incoming = NoTS
    \/ stored # NoTS /\ incoming # NoTS /\ incoming < stored

C7_RejectedMetaUpdate ==
    [][(/\ op' = "update_meta" /\ call'.check_timestamp
        /\ call'.ts = NoTS /\ meta_timestamp # NoTS) =>
        /\ res' = "rejected"
        /\ meta_updated' = meta_updated
        /\ meta_timestamp' = meta_timestamp
        /\ ticks' = ticks
        /\ emitted' = <<>>]_vars

\* name was stored as "A" with a timestamp, and an update without one was rejected
C7_Witness ==
    /\ op = "update_meta"
    /\ res = "rejected"
    /\ call.check_timestamp
    /\ call.ts = NoTS
    /\ meta_timestamp # NoTS
    /\ meta_updated.name = "A"

\* C8: an input-band or output-band update with check_timestamp whose incoming
\* timestamp loses against the stored band timestamp changes nothing: no value,
\* no band timestamp, no push scheduled or counted, no notification scheduled or
\* emitted.
C8_RejectedBandUpdate ==
    [][(\/ /\ op' = "update_istate" /\ call'.check_timestamp
           /\ Loses(itimestamp, call'.ts)
        \/ /\ op' = "update_ostate" /\ call'.check_timestamp
           /\ Loses(otimestamp, call'.ts)) =>
        /\ res' = "rejected"
        /\ UNCHANGED <<ivalue, ovalue, itimestamp, otimestamp, ticks, pushes, inflight>>
        /\ emitted' = <<>>]_vars

\* an output-band update with an older timestamp was rejected on a reachable bridge
C8_Witness ==
    /\ op = "update_ostate"
    /\ res = "rejected"
    /\ call.check_timestamp
    /\ call.ts # NoTS
    /\ call.ts < otimestamp
    /\ bridge_instance /\ reachable

\* C9 as stated: a band timestamp changes only in an update call that changed a
\* value and had set_timestamp on, and then to the incoming timestamp if the
\* update carries one and to the current time otherwise.
C9_Original ==
    [][/\ itimestamp' # itimestamp =>
            /\ op' = "update_istate" /\ res' = "applied" /\ call'.set_timestamp
            /\ itimestamp' = StampOf(call')
       /\ otimestamp' # otimestamp =>
            /\ op' = "update_ostate" /\ res' = "applied" /\ call'.set_timestamp
            /\ otimestamp' = StampOf(call')
       /\ meta_timestamp' # meta_timestamp =>
            /\ op' = "update_meta" /\ res' = "applied" /\ call'.set_timestamp
            /\ meta_timestamp' = StampOf(call')]_vars

\* C9 amended: an update call that changed a value with set_timestamp on sets the
\* band timestamp to the incoming timestamp if it carries one and to the current
\* time otherwise; any other update call leaves it alone, except that an
\* output-band update that changes a value without a reachable bridge clears the
\* band and so advances the output timestamp. Outside update calls the input
\* timestamp never changes, the output timestamp changes only with a clearing of
\* the band at counter zero, and the metadata timestamp only in Meta.set, to the
\* current time.
C9_TimestampRule ==
    /\ [][op' = "update_istate" =>
            itimestamp' = IF res' = "applied" /\ call'.set_timestamp
                          THEN StampOf(call') ELSE itimestamp]_vars
    /\ [][op' = "update_meta" =>
            meta_timestamp' = IF res' = "applied" /\ call'.set_timestamp
                              THEN StampOf(call') ELSE meta_timestamp]_vars
    /\ [][op' = "update_ostate" =>
            IF res' = "applied" /\ call'.set_timestamp
            THEN otimestamp' = StampOf(call')
            ELSE IF res' = "applied" /\ ~(bridge_instance /\ reachable)
            THEN otimestamp' > otimestamp /\ emitted' = <<"ostate">>
            ELSE otimestamp' = otimestamp]_vars
    /\ [][op' \notin {"update_istate", "update_ostate", "update_meta"} =>
            /\ itimestamp' = itimestamp
            /\ otimestamp' # otimestamp =>
                  (emitted' = <<"ostate">> /\ OstateEmpty(ovalue') /\ pushes' = 0)
            /\ meta_timestamp' # meta_timestamp =>
                  (op' = "meta_set" /\ meta_timestamp' = now)]_vars

\* a metadata update stored the timestamp it carried, which is not the current time
C9_Witness ==
    /\ op = "update_meta"
    /\ res = "applied"
    /\ call.set_timestamp
    /\ call.ts # NoTS
    /\ call.ts # now
    /\ meta_timestamp = call.ts

\* the tasks the last call added to the nextTick queue
Scheduled == SubSeq(ticks', Len(ticks) + 1, Len(ticks'))
CountOf(q, task) == Cardinality({i \in 1..Len(q) : q[i] = task})
\* the fields of an update dictionary that are applied when validation is on
WellFormed(updated, a) == updated[a] # Undefined /\ updated[a] # NotANumber
Coerced(updated, a) == IF AttrDef[a].is_null THEN updated[a] ELSE _bounded(updated[a], a)

C12_SilentWithoutNotify ==
    [][(/\ op' \in {"update_istate", "update_ostate"}
        /\ res' = "applied" /\ ~call'.notify) =>
        /\ \A i \in 1..Len(Scheduled) : Scheduled[i].kind = "push"
        /\ emitted' = <<>>]_vars

Matches(view, thing) == IF view = "V" THEN thing_zone[thing] = "A" ELSE thing_tag[thing]
Matching(view) == {t \in SetOf(members[FilterSource[view]]) : Matches(view, t)}
Silent(log) ==
    \A a \in Arrays : /\ log.changed[a] = 0
                      /\ log.new[a] = <<>>
                      /\ log.pushed[a] = <<>>
                      /\ log.replayed[a] = <<>>

\* C14: pushing a Thing that is already an element of the array changes no
\* array (length, elements and order stay), replays no persisted command on
\* the Thing and emits no pushed, new or changed event.
C14_SamePushIsNoOp ==
    [][(acall'.op = "push" /\ Has(members[acall'.arr], acall'.thing))
           => /\ members' = members
              /\ thing_tag' = thing_tag
              /\ Silent(alog')
              /\ acall'.res = "undefined"]_vars

\* a push of an element onto a view that has recorded commands
C14_Witness ==
    /\ acall.op = "push"
    /\ acall.arr = "V"
    /\ acall.res = "undefined"
    /\ Has(members["V"], acall.thing)
    /\ _persistds["V"] # <<>>
    /\ Len(members["V"]) = 2

\* C15: no array holds two elements with one thing id.
C15_NoDuplicateIds ==
    \A a \in Arrays : \A i, j \in 1..Len(members[a]) :
        i # j => thing_id[members[a][i]] # thing_id[members[a][j]]

\* C16: in a state a things_changed() of a persisting source has just left,
\* a second things_changed() of a persisting source (the sources and what the
\* filters match being as the first run saw them) adds no element to any
\* array, removes none, keeps the order and emits no EVENT_THING_NEW.
C16_ReconcileIdempotent ==
    (acall.op = "things_changed" /\ is_persist[acall.arr])
        => \A src \in BaseArrays :
               is_persist[src]
                   => /\ things_changed(World, src).members = members
                      /\ \A a \in Arrays : things_changed(World, src).log.new[a] = <<>>

\* a reconciliation of a view of two elements that added nothing
C16_Witness ==
    /\ acall.op = "things_changed"
    /\ is_persist[acall.arr]
    /\ made # {}
    /\ \E v \in made : Len(members[v]) >= 2 /\ alog.changed[v] >= 1
    /\ \A a \in Arrays : alog.new[a] = <<>>

UniqueIds ==
    \A a, b \in Arrays : \A t \in SetOf(members[a]), u \in SetOf(members[b]) :
        thing_id[t] = thing_id[u] => t = u

FilterFollowsSource ==
    ("V" \in made /\ is_persist["A"] /\ acall'.arr = "A")
        => /\ (/\ acall'.op = "push"
               /\ acall'.res = "self"
               /\ SetOf(members["V"]) = Matching("V")
               /\ Matches("V", acall'.thing))
                  => /\ members'["V"] = Append(members["V"], acall'.thing)
                     /\ alog'.new["V"] = <<acall'.thing>>
           /\ acall'.op = "things_changed"
                  => /\ \A t \in SetOf(members["V"]) :
                             ~Matches("V", t) => ~Has(members'["V"], t)
                     /\ alog'.new["V"] = <<>> => alog'.changed["V"] = 1

ViewIsMatchingSubset ==
    ("V" \in made /\ is_persist["A"] /\ alog'.changed["A"] >= 1)
        => \A v \in made : SetOf(members'[v]) = Matching(v)'

\* C17: for the filter V of a persisting A that holds exactly the matching
\* elements of A: a push onto A of a new matching Thing appends that Thing and
\* nothing else to V with one EVENT_THING_NEW on V; and once A.things_changed()
\* has run, every element of V that stopped matching is gone from V, and V
\* emitted EVENT_THINGS_CHANGED once if the run added nothing.
C17_FilterFollowsSource == [][FilterFollowsSource]_vars

\* C18: once a things_changed() of a persisting source has run, each filter
\* made of it holds exactly the elements of its source that match: V those of
\* A in zone "A", W those of V tagged "t".
C18_ViewIsMatchingSubset == [][ViewIsMatchingSubset]_vars

\* the same two statements while no array holds two elements of one thing id
FilterFollowsSourceUniqueIds == [][(UniqueIds /\ UniqueIds') => FilterFollowsSource]_vars
ViewIsMatchingSubsetUniqueIds == [][(UniqueIds /\ UniqueIds') => ViewIsMatchingSubset]_vars

MergedIds == IdsOf(members["M"]) = IdsOf(members["A"]) \cup IdsOf(members["B"])
SourceChange(c) ==
    /\ c.arr \in BaseArrays
    /\ \/ c.op = "push" /\ c.res = "self"
       \/ c.op = "things_changed"

\* C19 as stated: once a push onto A or B, or a things_changed() of A or B,
\* has run, the thing ids of M are those of A and of B together.
C19_Original ==
    [][("M" \in made /\ SourceChange(acall')) => MergedIds']_vars

\* C19: M holds the thing ids of A and of B together when merge() returns and
\* once a push onto, or a things_changed() of, a persisting source has run; a
\* source that does not persist is not listened to.
C19_MergeFollowsPersisting ==
    [][/\ acall'.op = "merge" => MergedIds'
       /\ ("M" \in made /\ SourceChange(acall') /\ is_persist[acall'.arr]) => MergedIds']_vars

\* a push onto the persisting B that M followed
C19_Witness ==
    /\ "M" \in made
    /\ acall.op = "push"
    /\ acall.arr = "B"
    /\ acall.res = "self"
    /\ is_persist["B"]
    /\ alog.new["M"] = <<acall.thing>>
    /\ Len(members["M"]) >= 2

Derives(view, src) ==
    \/ view \in DOMAIN FilterSource /\ FilterSource[view] = src /\ is_persist[src]
    \/ view = "M" /\ src \in BaseArrays

\* C20 as stated: an array made by filter() from a persisting source, or by
\* merge(), emits at least one EVENT_THINGS_CHANGED for each
\* EVENT_THINGS_CHANGED of a source.
C20_Original ==
    [][\A src \in Arrays, view \in made :
           Derives(view, src) => alog'.changed[view] >= alog'.changed[src]]_vars

\* C20: an array made by filter() or merge() emits at least one
\* EVENT_THINGS_CHANGED for each EVENT_THINGS_CHANGED of a persisting source,
\* whether its elements changed or not, and so does a filter of that array.
C20_AlwaysNotifiesDownstream ==
    [][\A src \in Arrays, view \in made :
           (Derives(view, src) /\ is_persist[src])
               => alog'.changed[view] >= alog'.changed[src]]_vars

\* a things_changed() that changed no array and reached the nested filter
C20_Witness ==
    /\ "W" \in made
    /\ acall.op = "things_changed"
    /\ alog.changed["A"] = 1
    /\ alog.changed["W"] >= 1
    /\ \A a \in Arrays : alog.new[a] = <<>>
    /\ members["V"] # <<>>

\* ------------------------------------------------ persisted command replay
Issued(arr) == [i \in 1..Len(_persistds[arr]) |-> _persistds[arr][i].f]
IssuedPre(arr) == SelectSeq(Issued(arr), LAMBDA f : f = "tag")
IssuedPost(arr) == SelectSeq(Issued(arr), LAMBDA f : f # "tag")
ReplayedOn(log, arr, thing) ==
    LET on == SelectSeq(log.replayed[arr], LAMBDA r : r[1] = thing)
    IN  [i \in 1..Len(on) |-> on[i][2]]
Joined(arr, thing) == ~Has(members[arr], thing) /\ Has(members'[arr], thing)

\* C21 as stated: a Thing that joins a persisting array is replayed the
\* commands of the array's log, each once, in the order they were issued.
C21_Original ==
    [][\A arr \in Arrays, thing \in Things :
           (is_persist[arr] /\ Joined(arr, thing))
               => ReplayedOn(alog', arr, thing) = Issued(arr)]_vars

\* C21: a Thing that joins a persisting array is replayed each command of the
\* array's log once: the tag commands first (before the Thing is appended),
\* in the order they were issued, then the other commands in the order they
\* were issued.
C21_ReplayOncePreThenPost ==
    [][\A arr \in Arrays, thing \in Things :
           (is_persist[arr] /\ Joined(arr, thing))
               => ReplayedOn(alog', arr, thing) = IssuedPre(arr) \o IssuedPost(arr)]_vars

\* a Thing joined V, whose log is name then tag, and was replayed tag then name
C21_Witness ==
    /\ acall.op = "push"
    /\ acall.res = "self"
    /\ Has(members["V"], acall.thing)
    /\ Issued("V") = <<"name", "tag">>
    /\ alog.replayed["V"] = <<<<acall.thing, "tag">>, <<acall.thing, "name">>>>

Setters(fs) == SelectSeq(fs, LAMBDA f : f \in {"set", "update"})
IssuedNext(arr) == [i \in 1..Len(_persistds'[arr]) |-> _persistds'[arr][i].f]

\* C22: the log of an array never holds two setters (set, update); recording
\* a setter on a persisting array leaves it as the only setter of the log, as
\* its last entry; and a Thing that joins is replayed the setter of the log,
\* once, and no other.
C22_OneSetter ==
    [][/\ \A arr \in Arrays : Len(Setters(IssuedNext(arr))) <= 1
       /\ (acall'.op \in {"set", "update"} /\ is_persist[acall'.arr])
              => /\ Setters(IssuedNext(acall'.arr)) = <<acall'.op>>
                 /\ IssuedNext(acall'.arr)[Len(_persistds'[acall'.arr])] = acall'.op
       /\ \A arr \in Arrays, thing \in Things :
              (is_persist[arr] /\ Joined(arr, thing))
                  => Setters(ReplayedOn(alog', arr, thing)) = Setters(Issued(arr))]_vars

\* an update that took the set recorded before it out of the log
C22_Witness ==
    /\ acall.op = "update"
    /\ acall.arr = "V"
    /\ Len(alog.dropped["V"]) = 1
    /\ alog.dropped["V"][1].f = "set"
    /\ Issued("V") = <<"update">>

CalledWith(log, arr, k) ==
    LET by == SelectSeq(log.called[arr], LAMBDA c : c[1] = k)
    IN  [i \in 1..Len(by) |-> by[i][2]]

\* C23: on("thing") invokes the callback for the elements of the array, each
\* once and in order, and no callback registered earlier; afterwards a call
\* invokes each registered callback once for each Thing that joined the array
\* and for no other Thing: not twice, and not for a Thing push() turned away.
C23_OnThingOncePerAddition ==
    [][\A arr \in Arrays :
           /\ (acall'.op = "on_thing" /\ acall'.arr = arr)
                  => /\ CalledWith(alog', arr, on_thing'[arr]) = members[arr]
                     /\ \A k \in 1..on_thing[arr] : CalledWith(alog', arr, k) = <<>>
           /\ acall'.op # "on_thing"
                  => \A k \in 1..on_thing[arr], thing \in Things :
                         Len(SelectSeq(CalledWith(alog', arr, k), LAMBDA t : t = thing))
                             = IF Joined(arr, thing) THEN 1 ELSE 0]_vars

\* a handler run that added one Thing to V, called back for it, and turned
\* away the Thing of the same id that V already held
C23_Witness ==
    /\ on_thing["V"] >= 1
    /\ acall.op = "push"
    /\ acall.arr = "A"
    /\ Len(members["V"]) >= 2
    /\ CalledWith(alog, "V", 1) = <<acall.thing>>

\* C30: a Thing whose disconnect() has run, called on the Thing or by the
\* disconnect() of an array that held it, is an element of no array.
C30_DisconnectedInNoArray ==
    \A thing \in Things : ~thing_bridge[thing] => \A arr \in Arrays : ~Has(members[arr], thing)

\* ------------------------------------------------------- find properties
\* the matches of the last find, in attribute order
FoundMatches == _find_matches(__attributes, find_key)
Sensors == SelectSeq(FoundMatches, LAMBDA i : __attributes[i].sensor)
Actuators == SelectSeq(FoundMatches, LAMBDA i : __attributes[i].actuator)
\* the matches the mode asks for: actuators for "set", sensors for "get" and "on"
Appropriate ==
    IF mode = "set" THEN Actuators
    ELSE IF mode \in {"get", "on"} THEN Sensors
    ELSE <<>>
SearchedByDictionary == match.called /\ find_key.kind # "code"

\* C24 as stated: with several matches find answers the first match the mode asks
\* for and, when there is none, the first match; with one match, that match.
C24_Original ==
    SearchedByDictionary =>
        /\ Len(FoundMatches) = 1 => match.rd = FoundMatches[1]
        /\ Len(FoundMatches) > 1 =>
               match.rd = IF Appropriate # <<>> THEN Appropriate[1] ELSE FoundMatches[1]

\* C24: with several matches find answers the first match the mode asks for (an
\* actuator for set, a sensor for get and on); when there is none it answers the
\* first matching actuator, else the first matching sensor, else the first match.
\* With exactly one match it answers that match whatever the mode.
C24_FindPrefersByMode ==
    SearchedByDictionary =>
        /\ Len(FoundMatches) = 1 => match.rd = FoundMatches[1]
        /\ Len(FoundMatches) > 1 =>
               match.rd = IF Appropriate # <<>> THEN Appropriate[1]
                          ELSE IF Actuators # <<>> THEN Actuators[1]
                          ELSE IF Sensors # <<>> THEN Sensors[1]
                          ELSE FoundMatches[1]

\* a set that finds two matching sensors behind a match that is neither sensor nor
\* actuator, and answers the first sensor
C24_Witness ==
    /\ SearchedByDictionary
    /\ mode = "set"
    /\ Len(FoundMatches) = 3
    /\ Actuators = <<>>
    /\ Len(Sensors) = 2
    /\ Sensors[1] # FoundMatches[1]
    /\ match.rd = Sensors[1]

\* -------------------------------------------------------- key properties
\* the keys of the model that are well formed, and those of them no attribute of
\* the modelled Thing answers to
WellFormedKeys == {"level", "ev", "nope", DimKey, DictDimKey}
UnresolvedKeys == {"nope", DimKey, DictDimKey}

HasType(value, t) ==
    IF t = "integer" THEN is_Integer(value) ELSE value.type = t

\* the first type of the order that the attribute declares
FirstDeclared(order) ==
    order[CHOOSE i \in 1..Len(order) :
              /\ order[i] \in attribute.types
              /\ \A j \in 1..(i - 1) : order[j] \notin attribute.types]

\* a raw scalar was converted by an attribute that declares a scalar type
ConvertedScalar ==
    /\ converted.called
    /\ raw.type \in {"boolean", "number", "string"}
    /\ attribute.types # {}

\* the order in which the conversion of the raw value tries the types
OrderFor(value) ==
    IF value.type = "string" THEN <<"string", "boolean", "integer", "number">>
    ELSE IF value.type = "number" /\ ~is_Integer(value)
    THEN <<"boolean", "number", "integer", "string">>
    ELSE <<"boolean", "integer", "number", "string">>

\* C26 as stated: the converted value has the first declared type of the order
\* boolean, integer, number, string, whatever the raw value.
C26_Original ==
    ConvertedScalar =>
        HasType(converted.value, FirstDeclared(<<"boolean", "integer", "number", "string">>))

\* C26: the converted value has the first declared type of the order boolean,
\* integer, number, string for a raw boolean or integer, of the order boolean,
\* number, integer, string for a raw number that is no integer, and of the order
\* string, boolean, integer, number for a raw string; a string that does not parse
\* as a number converts to undefined when that type is integer or number.
C26_FirstDeclaredTypeByRawType ==
    ConvertedScalar =>
        IF /\ raw.type = "string"
           /\ ~Parses(raw.s)
           /\ FirstDeclared(OrderFor(raw)) \in {"integer", "number"}
        THEN converted.value = JsUndefined
        ELSE HasType(converted.value, FirstDeclared(OrderFor(raw)))

\* the number 1.5 converted by an attribute that declares integer and number stays 1.5
C26_Witness ==
    /\ ConvertedScalar
    /\ raw = Num(3)
    /\ attribute.types = {"integer", "number"}
    /\ converted.value = Num(3)

\* C27: with declared minimum <= maximum, a number that validation yields lies
\* within the bounds: a converted number below the minimum becomes the minimum,
\* one above the maximum becomes the maximum, one within stays, none is dropped.
C27_ClampedIntoBounds ==
    (/\ converted.called
     /\ validated.called
     /\ attribute.minimum.declared
     /\ attribute.maximum.declared
     /\ attribute.minimum.n <= attribute.maximum.n)
        => /\ validated.value.type = "number"
               => /\ attribute.minimum.n <= validated.value.n
                  /\ validated.value.n <= attribute.maximum.n
           /\ converted.value.type = "number"
               => validated.value =
                      Num(IF converted.value.n < attribute.minimum.n THEN attribute.minimum.n
                          ELSE IF converted.value.n > attribute.maximum.n
                          THEN attribute.maximum.n
                          ELSE converted.value.n)

\* the string "1.5" validated by an integer attribute with bounds [-1, 1] becomes 1
C27_Witness ==
    /\ converted.called
    /\ validated.called
    /\ raw = Str("1.5")
    /\ attribute = [types |-> {"integer"}, minimum |-> Bound(-1), maximum |-> Bound(1)]
    /\ converted.value = Num(4)
    /\ validated.value = Num(2)

\* C28: a boolean converted by an attribute that declares integer or number (and
\* not boolean) becomes, for true, the declared maximum or 1 when none is declared
\* and, for false, the declared minimum or 0 when none is declared, declared
\* bounds of 0 included.
C28_BooleanToDeclaredBound ==
    (/\ converted.called
     /\ raw.type = "boolean"
     /\ "boolean" \notin attribute.types
     /\ attribute.types \cap {"integer", "number"} # {})
        => converted.value =
               IF raw.b
               THEN Num(IF attribute.maximum.declared THEN attribute.maximum.n ELSE 2)
               ELSE Num(IF attribute.minimum.declared THEN attribute.minimum.n ELSE 0)

\* ----------------------------------------------------- pulled properties
\* C29: when the bridge calls pulled with nothing, through the BridgeWrapper or
\* through Driver.pulled, the values and the timestamps of the input band and of
\* the output band stay as they were, and a metadata notification goes out: the
\* wrapper emits "meta", the driver schedules the Thing's "meta" event.
C29_AbsenceUpdatesNoBand ==
    [][(res' = "absent" /\ op' \in {"pulled", "driver_pulled"}) =>
           /\ UNCHANGED <<ivalue, itimestamp, ovalue, otimestamp>>
           /\ op' = "pulled" => Has(emitted', "wrapper.meta")
           /\ op' = "driver_pulled" => Has(ticks', EmitTask("meta"))]_vars

\* an absence reported while both bands hold a value for "level"
C29_Witness ==
    /\ op = "pulled"
    /\ res = "absent"
    /\ ivalue["level"] = 1
    /\ ovalue["level"] = 1
    /\ itimestamp # NoTS
    /\ Has(emitted, "wrapper.meta")

\* ---------------------------------------------------- array tag properties
\* C31: array.tag("t") on an array with an element tags every element, throws
\* nothing, returns the array and, when the array persists, records the command.
C31_TagReachesEveryElement ==
    [][(derive = "replay" /\ acall'.op = "tag" /\ members[acall'.arr] # <<>>) =>
           /\ acall'.res = "self"
           /\ \A i \in 1..Len(members[acall'.arr]) : thing_tag'[members[acall'.arr][i]]
           /\ is_persist[acall'.arr] => Has(IssuedNext(acall'.arr), "tag")]_vars

\* ------------------------------------------------- push order properties
\* after the step, a push carrying attribute a waits in the nextTick queue or is
\* held by the bridge
OutstandingNext(a) ==
    \/ \E i \in 1..Len(ticks') : ticks'[i].kind = "push" /\ ticks'[i].pushd[a] # Undefined
    \/ \E p \in BagToSet(inflight') : p[a] # Undefined

\* C32: the completion of a push (its callback, or the exception of the bridge's
\* push call) never clears the output value of an attribute while another push
\* carrying that attribute is scheduled or handed to the bridge and not completed.
C32_NoClearWhileOutstanding ==
    [][\A a \in Attrs :
           (/\ op' \in {"dispatch", "push_callback"}
            /\ ovalue[a] # Null
            /\ ovalue'[a] = Null) => ~OutstandingNext(a)]_vars

\* the attributes a call tries to update, and those of them it finds unchanged: not
\* of null type, and the coerced new value is the current output value
Given(a) == call'.updated[a] # Undefined
SameAsCurrent(a) ==
    /\ Given(a)
    /\ ~AttrDef[a].is_null
    /\ validate_value(a, call'.updated[a]) # Undefined
    /\ ovalue[a] = validate_value(a, call'.updated[a])
PushScheduledWith(a, value) ==
    \E i \in 1..Len(Scheduled) :
        Scheduled[i].kind = "push" /\ Scheduled[i].pushd[a] = value

IsPush(task) == task.kind = "push"
PushSeq(q) == SelectSeq(q, IsPush)
\* the payload of the push an applied update schedules: the coerced value of every
\* attribute the update changed
PayloadOf(updated) ==
    [a \in Attrs |->
        IF /\ updated[a] # Undefined
           /\ validate_value(a, updated[a]) # Undefined
           /\ (AttrDef[a].is_null \/ ovalue[a] # validate_value(a, updated[a]))
        THEN validate_value(a, updated[a])
        ELSE Undefined]

\* C34: an applied set or update on a reachable bridge puts one push behind every
\* push already scheduled, carrying the values the update wrote; no other call or
\* callback touches the scheduled pushes; each dispatch takes the oldest scheduled
\* push and hands the bridge its payload as it was scheduled.
C34_PushesInUpdateOrder ==
    [][/\ (op' \in {"set", "update_ostate"} /\ res' = "applied" /\ bridge_instance /\ reachable) =>
              /\ PushSeq(ticks') = Append(PushSeq(ticks), PushTask(PayloadOf(call'.updated)))
              /\ \A a \in Attrs : PayloadOf(call'.updated)[a] # Undefined =>
                     ovalue'[a] = PayloadOf(call'.updated)[a]
       /\ (op' \in {"set", "update_ostate"} /\ ~(res' = "applied" /\ bridge_instance /\ reachable)) =>
              PushSeq(ticks') = PushSeq(ticks)
       /\ (op' \notin {"set", "update_ostate", "dispatch"}) => PushSeq(ticks') = PushSeq(ticks)
       /\ (op' = "dispatch") =>
              /\ PushSeq(ticks) # <<>>
              /\ PushSeq(ticks') = Tail(PushSeq(ticks))
              /\ (res' = "async") =>
                     inflight' = inflight (+) SetToBag({PushSeq(ticks)[1].pushd})]_vars

\* the push of the first update is with the bridge carrying "level" 1, while the push
\* of a later update, made before the first was dispatched, is scheduled with "level" 3
C34_Witness ==
    /\ op = "dispatch"
    /\ res = "async"
    /\ \E p \in BagToSet(inflight) : p["level"] = 1
    /\ PushSeq(ticks) # <<>>
    /\ PushSeq(ticks)[1].pushd["level"] = 3
    /\ ovalue["level"] = 3

\* no push was added to the nextTick queue and none was handed to the bridge
NothingHanded ==
    /\ PushSeq(ticks') = PushSeq(ticks)
    /\ pushes' = pushes
    /\ inflight' = inflight

\* C35 as claimed: without a bridge, or with a bridge that is not reachable, every
\* set or output-band update of an attribute hands nothing to a bridge, leaves
\* _pushes alone and returns with every output value absent.
C35_Original ==
    [][(/\ op' \in {"set", "update_ostate"}
        /\ \E a \in Attrs : Given(a)
        /\ ~bridge_instance \/ ~reachable) =>
           /\ NothingHanded
           /\ \A a \in Attrs : ovalue'[a] = Null]_vars

\* C35: without a bridge, or with a bridge that is not reachable, a set or
\* output-band update that changes an attribute hands nothing to a bridge, leaves
\* _pushes alone and returns with every output value absent; one that changes no
\* attribute hands nothing over either and leaves the output values as they were.
C35_ChangeWithoutBridgeClears ==
    [][(/\ op' \in {"set", "update_ostate"}
        /\ ~bridge_instance \/ ~reachable) =>
           /\ NothingHanded
           /\ res' = "applied" => \A a \in Attrs : ovalue'[a] = Null
           /\ res' # "applied" => ovalue' = ovalue]_vars

\* a set was applied on a bridge that is not reachable while a push was with the
\* bridge: the band was cleared at once and the listeners of "ostate" were told
C35_Witness ==
    /\ op = "set"
    /\ res = "applied"
    /\ bridge_instance
    /\ ~reachable
    /\ pushes > 0
    /\ emitted = <<"ostate">>
    /\ \A a \in Attrs : ovalue[a] = Null

\* C36: with the default options the input band timestamp never decreases, whatever
\* the timestamps of the updates and of the bridge's reports: older, equal, newer
\* or missing.
C36_IstateTimestampMonotone ==
    [][itimestamp' >= itimestamp]_vars

\* a report of the bridge stamped older than the input band was refused
C36_Witness ==
    /\ op = "pulled"
    /\ res = "rejected"
    /\ call.ts # NoTS
    /\ call.ts < itimestamp
    /\ call.ts < now

\* the last step emitted "connection"
ConnectionNotified == \E i \in 1..Len(emitted') : emitted'[i] = "connection"

WrapperEvents == {"wrapper.state", "wrapper.meta", "wrapper.disconnected"}
IsWrapperEvent(e) == e \in WrapperEvents
IsModelEvent(e) == e \notin WrapperEvents

\* C39: on every report of the bridge the Model's pulled has run (the reachability
\* is recorded, the events of the Model are out) before the first event of the
\* wrapper; a report with values gives exactly "state", a report without gives
\* "meta", followed by "disconnected" exactly when the bridge is not reachable, so
\* that "disconnected" always comes right after the "meta" of its report.
C39_PulledThenWrapperEvents ==
    [][(op' = "pulled") =>
          /\ reachabled' = (IF reachable' THEN "yes" ELSE "no")
          /\ \A i, j \in 1..Len(emitted') :
                 (IsWrapperEvent(emitted'[i]) /\ IsModelEvent(emitted'[j])) => j < i
          /\ (res' # "absent") =>
                 SelectSeq(emitted', IsWrapperEvent) = <<"wrapper.state">>
          /\ (res' = "absent" /\ reachable') =>
                 SelectSeq(emitted', IsWrapperEvent) = <<"wrapper.meta">>
          /\ (res' = "absent" /\ ~reachable') =>
                 SelectSeq(emitted', IsWrapperEvent) = <<"wrapper.meta", "wrapper.disconnected">>
          /\ \A i \in 1..Len(emitted') :
                 emitted'[i] = "wrapper.disconnected" =>
                     i > 1 /\ emitted'[i - 1] = "wrapper.meta"]_vars

\* an empty report of a bridge that had been reachable and is not any more: the
\* Model told of the connection, then the wrapper of "meta" and "disconnected"
C39_Witness ==
    /\ op = "pulled"
    /\ res = "absent"
    /\ emitted = <<"connection", "wrapper.meta", "wrapper.disconnected">>
    /\ ~reachable

\* ---------------------------------------------------- wrapper properties
\* the bridges the binding turns away
Unmatched(bridge) ==
    binding.has_matchd /\ ~d_contains_d(BridgeMeta[bridge], binding.matchd)
CountIn(q, e) == Cardinality({i \in 1..Len(q) : q[i] = e})

\* C38: whatever the wrapper does for a reported bridge is one of two things:
\* "ignored" for a bridge whose meta does not hold the binding's matchd, with no
\* model made and no connect; or "model", then connect, then "bridge", one right
\* after the other. Every report is answered by exactly one of them. The constructor
\* emits nothing and starts no discovery: discover runs on a later tick.
C38_IgnoredOrModelConnectBridge ==
    [][/\ \A bridge \in Bridges :
              /\ Has(wlog', Ev("ignored", bridge)) =>
                     Unmatched(bridge) /\ ~Has(wlog', Ev("model", bridge))
                                       /\ ~Has(wlog', Ev("connect", bridge))
                                       /\ ~Has(wlog', Ev("bridge", bridge))
              /\ Has(wlog', Ev("model", bridge)) => ~Unmatched(bridge)
              /\ \A i \in 1..Len(wlog') :
                     /\ wlog'[i] = Ev("model", bridge) =>
                            /\ i + 2 <= Len(wlog')
                            /\ wlog'[i + 1] = Ev("connect", bridge)
                            /\ wlog'[i + 2] = Ev("bridge", bridge)
                     /\ wlog'[i] = Ev("connect", bridge) =>
                            i > 1 /\ wlog'[i - 1] = Ev("model", bridge)
                     /\ wlog'[i] = Ev("bridge", bridge) =>
                            i > 1 /\ wlog'[i - 1] = Ev("connect", bridge)
              /\ CountIn(wrapper'.models, bridge) - CountIn(wrapper.models, bridge)
                     = CountIn(wlog', Ev("model", bridge))
              /\ CountIn(wrapper'.connected, bridge) - CountIn(wrapper.connected, bridge)
                     = CountIn(wlog', Ev("connect", bridge))
       /\ wrapper'.reports - wrapper.reports
              = Cardinality({i \in 1..Len(wlog') :
                    \E bridge \in Bridges :
                        wlog'[i] \in {Ev("ignored", bridge), Ev("model", bridge)}})
       /\ (op' = "bridge_wrapper") =>
              /\ wlog' = <<>>
              /\ ~wrapper'.discovering
              /\ Has(ticks', DiscoverTask)
       /\ (wrapper'.discovering /\ ~wrapper.discovering) =>
              wrapper.constructed /\ op' = "discover"
       /\ (wlog' # <<>>) => wrapper.constructed /\ wrapper'.discovering]_vars

\* discover reported a bridge the binding turns away and one it takes: the first
\* was ignored, the second got its model, was connected and then announced
C38_Witness ==
    /\ op = "discover"
    /\ binding.has_matchd
    /\ wlog = <<Ev("ignored", "b2"), Ev("model", "b1"), Ev("connect", "b1"),
               Ev("bridge", "b1")>>
    /\ wrapper.models = <<"b1">>
    /\ wrapper.connected = <<"b1">>
    /\ wrapper.reports = 2

====
